---- MODULE Spec2Model ----
(***************************************************************************)
(* Request/response pipeline of tailscale-client-go.                       *)
(*                                                                         *)
(* Three snapshots of the pipeline live in the tree and are told apart by  *)
(* the variable pkg:                                                       *)
(*   "tsclient"  package tsclient (v2): Client.buildRequest / Client.do,   *)
(*               lazily initialised resource facades, Client.UseOAuth;     *)
(*   "tailscale" package tailscale with resource facades: NewClient,       *)
(*               request options, performRequest with the []byte path;     *)
(*   "flat"      the earliest package tailscale: methods on Client,        *)
(*               buildRequest(headers, body), performRequest.              *)
(* An exported call is two steps: the accessor, the argument checks and    *)
(* the request builder; then, once the transport has answered (the answer  *)
(* is drawn from a small set), the response normalizer and the return.     *)
(***************************************************************************)
EXTENDS Integers, Sequences, FiniteSets, TLC

VARIABLES
    pkg,        \* which snapshot of the library this client belongs to
    client,     \* "ok": a usable *Client; "nil": NewClient returned an error
    APIKey,     \* Client.APIKey / Client.apiKey
    UserAgent,  \* Client.UserAgent / Client.userAgent
    HTTP,       \* Client.HTTP / Client.http: "nil", "default", "custom", "oauth"
    initDone,   \* Client.initOnce has run (tsclient only)
    op,         \* the last exported call and its arguments
    req,        \* the request the last call built
    res,        \* what the transport answered to it
    err,        \* the error the last call returned
    out,        \* the output destination of the last call
    pc,         \* "idle", "sent" (request on the transport), "returned"
    transport,  \* the HTTP handles whose Do the last call invoked, in order
    BaseURL,    \* Client.BaseURL: the path segments of the base URL
    Tailnet,    \* Client.Tailnet, character by character
    pathElements, \* the arguments of the last buildURL / buildTailnetURL call
    url,        \* the URL that call returned
    TokenURL,   \* the TokenURL of the OAuth configuration behind Client.HTTP
    onceM,      \* initOnce's mutex: the goroutine holding it, 0 when free
    facades,    \* the facade fields of the Client (c.devices, c.keys)
    initRuns,   \* how many times the body of Client.init has been entered
    goroutines, \* per goroutine: position, accessor being called, facades returned so far, last request built
    aclValue,   \* an ACL value in memory
    aclJSON,    \* json.Marshal of it, <<>> until it is encoded
    aclDecoded, \* json.Unmarshal of that into a fresh ACL, <<>> until it is decoded
    timeValue,  \* a Time that JSON is decoded into
    timeData,   \* the JSON texts decoded into it so far, in order
    timeErr     \* what the last Time.UnmarshalJSON returned

callVars == <<pkg, client, APIKey, UserAgent, HTTP, initDone, op, req, res, err, out, pc, transport>>
urlVars == <<BaseURL, Tailnet, pathElements, url, TokenURL>>
onceVars == <<onceM, facades, initRuns, goroutines>>
codecVars == <<aclValue, aclJSON, aclDecoded>>
timeVars == <<timeValue, timeData, timeErr>>

vars == <<callVars, urlVars, onceVars, codecVars, timeVars>>

(***************************************************************************)
(* Bounds and program constants                                            *)
(***************************************************************************)
MaxEtagLen == 1
MaxElemLen == 2
MaxPathElements == 2
MaxOptions == 2
NumGoroutines == 2
MaxCalls == 2
MaxDecodes == 3

defaultContentType == "application/json"
hujsonContentType == "application/hujson"
defaultUserAgent == "tailscale-client-go"

StatusOK == 200
StatusCreated == 201
StatusMultipleChoices == 300
StatusBadRequest == 400
StatusNotFound == 404

Packages == {"tsclient", "tailscale", "flat"}
Keys == {"", "tskey-api-k1"}
UserAgents == {"", defaultUserAgent, "custom-agent"}

\* Status codes a transport can hand back, on both sides of every comparison
\* the normalizers make.
Statuses == {199, 200, 201, 299, 300, 399, 400, 404}

(***************************************************************************)
(* Errors.  Every error value has the same shape; type is the Go dynamic   *)
(* type, "nil" for the nil error.                                          *)
(***************************************************************************)
MkError(t, m, s, x) == [type |-> t, Message |-> m, status |-> s, text |-> x, Data |-> <<>>]

Nil == MkError("nil", "", 0, "")

\* APIError as json.Unmarshal leaves it: status is unexported and stays 0.
APIError(message) == MkError("APIError", message, 0, "")

SyntaxError == MkError("*json.SyntaxError", "", 0, "invalid character")
UnmarshalTypeError == MkError("*json.UnmarshalTypeError", "", 0, "cannot unmarshal")
HuJSONError == MkError("*hujson.Error", "", 0, "hujson: invalid")
TransportError == MkError("*url.Error", "", 0, "transport failure")
ReadError == MkError("*errors.errorString", "", 0, "unexpected EOF")

\* func (err APIError) Error() string: "%s (%v)" of Message and status.
Error(e) == IF e.type = "APIError" THEN e.Message \o " (" \o ToString(e.status) \o ")" ELSE e.text

\* errors.As(err, &apiErr): the library never wraps, so the chain is the error.
ErrorsAs(e, t) == e.type # "nil" /\ e.type = t

\* IsNotFound testing for the wrong status.
IsNotFound_badRequest(e) == IF ErrorsAs(e, "APIError") THEN e.status = StatusBadRequest ELSE FALSE

IsNotFound(e) == IF ErrorsAs(e, "APIError") THEN e.status = StatusNotFound ELSE FALSE

\* func ErrorData(err error) []APIErrorData; <<>> is the nil slice.
ErrorData(e) == IF ErrorsAs(e, "APIError") THEN e.Data ELSE <<>>

(***************************************************************************)
(* Response bodies and what encoding/json and hujson make of them.         *)
(***************************************************************************)
BodyEmpty == ""
BodyMessage == "{\"message\":\"error\"}"
BodyKey == "{\"id\":\"k1\"}"
BodyData == "{\"data\":[{\"user\":\"u1\"}]}"
BodyNull == "null"
BodyArray == "[]"
BodyHuJSON == "{\"message\":\"bad\",} // c"
BodyHuJSONStd == "{\"message\":\"bad\" }     "

Bodies == {BodyEmpty, BodyMessage, BodyKey, BodyData, BodyNull, BodyArray, BodyHuJSON}

\* json.Valid
JSONValid(b) == b \in {BodyMessage, BodyKey, BodyData, BodyNull, BodyArray, BodyHuJSONStd}

\* hujson.Standardize: comments and trailing commas become spaces; anything
\* that is not HuJSON is an error.
Standardize(b) ==
    IF b = BodyHuJSON THEN [err |-> Nil, body |-> BodyHuJSONStd]
    ELSE IF JSONValid(b) THEN [err |-> Nil, body |-> b]
    ELSE [err |-> HuJSONError, body |-> b]

\* The JSON value of a valid text: kind and the string members this model
\* looks at ("" with has = FALSE when the member is absent).
JSONValue(b) ==
    CASE b = BodyMessage   -> [kind |-> "object", hasMessage |-> TRUE, message |-> "error", hasID |-> FALSE, id |-> "", data |-> <<>>]
      [] b = BodyHuJSONStd -> [kind |-> "object", hasMessage |-> TRUE, message |-> "bad", hasID |-> FALSE, id |-> "", data |-> <<>>]
      [] b = BodyKey       -> [kind |-> "object", hasMessage |-> FALSE, message |-> "", hasID |-> TRUE, id |-> "k1", data |-> <<>>]
      [] b = BodyData      -> [kind |-> "object", hasMessage |-> FALSE, message |-> "", hasID |-> FALSE, id |-> "", data |-> <<"u1">>]
      [] b = BodyNull      -> [kind |-> "null", hasMessage |-> FALSE, message |-> "", hasID |-> FALSE, id |-> "", data |-> <<>>]
      [] b = BodyArray     -> [kind |-> "array", hasMessage |-> FALSE, message |-> "", hasID |-> FALSE, id |-> "", data |-> <<>>]
      [] OTHER             -> [kind |-> "invalid", hasMessage |-> FALSE, message |-> "", hasID |-> FALSE, id |-> "", data |-> <<>>]

(***************************************************************************)
(* Output destinations: the value behind the `out` pointer.                *)
(*   type  "nil" (no destination), "bytes" (pointer to []byte),            *)
(*         "APIError", "Key", "map" (map[string][]Key)                     *)
(***************************************************************************)
Dest(t) == [type |-> t, bytes |-> "", Message |-> "", Data |-> <<>>, ID |-> "", set |-> FALSE]

NoDest == Dest("nil")

\* json.Unmarshal(body, out) for a struct or map destination.
Unmarshal(b, o) ==
    LET v == JSONValue(b) IN
    IF ~JSONValid(b) THEN [err |-> SyntaxError, out |-> o]
    ELSE IF v.kind = "null" THEN [err |-> Nil, out |-> o]
    ELSE IF v.kind # "object" THEN [err |-> UnmarshalTypeError, out |-> o]
    ELSE [err |-> Nil,
          out |-> [o EXCEPT !.set = TRUE,
                            !.Message = IF o.type = "APIError" /\ v.hasMessage THEN v.message ELSE @,
                            !.Data = IF o.type = "APIError" /\ v.data # <<>> THEN v.data ELSE @,
                            !.ID = IF o.type = "Key" /\ v.hasID THEN v.id ELSE @]]

(***************************************************************************)
(* Strings built character by character: an ETag is a sequence of          *)
(* one-character strings so that %q can be applied to it.                  *)
(***************************************************************************)
EtagAlphabet == {"e", "\"", "\\"}

SeqsUpTo(S, n) == UNION {[1..k -> S] : k \in 0..n}

Etags == SeqsUpTo(EtagAlphabet, MaxEtagLen)

RECURSIVE Str(_)
Str(cs) == IF cs = <<>> THEN "" ELSE Head(cs) \o Str(Tail(cs))

\* strconv.Quote on one character: '"' and '\' are backslash-escaped.
QuoteChar(c) == IF c = "\"" THEN "\\\"" ELSE IF c = "\\" THEN "\\\\" ELSE c

\* fmt.Sprintf("%q", etag)
SprintfQ(cs) == "\"" \o Str([i \in 1..Len(cs) |-> QuoteChar(cs[i])]) \o "\""

(***************************************************************************)
(* URLs.  A path is the sequence of its segments; a path element is a      *)
(* sequence of one-character strings so that url.PathEscape can be applied *)
(* to it.                                                                  *)
(***************************************************************************)
PathAlphabet == {"a", "/", "."}

PathElems == SeqsUpTo(PathAlphabet, MaxElemLen)

PathElemLists == SeqsUpTo(PathElems, MaxPathElements)

\* The paths a configured base URL can have: none, or one segment.
BaseURLs == {<<>>, <<"proxy">>}

defaultBaseURL == <<>>

\* url.PathEscape on one character: '/' is escaped, 'a' and '.' are not.
PathEscapeChar(c) == IF c = "/" THEN "%2F" ELSE c

\* url.PathEscape(fmt.Sprint(pathElement))
PathEscape(cs) == Str([i \in 1..Len(cs) |-> PathEscapeChar(cs[i])])

\* path.Clean on a rooted path given as segments: empty and "." segments
\* disappear, ".." removes the segment before it (and itself).
RECURSIVE Clean(_, _)
Clean(done, segs) ==
    IF segs = <<>> THEN done
    ELSE LET x == Head(segs) IN
         IF x = "" \/ x = "." THEN Clean(done, Tail(segs))
         ELSE IF x = ".." THEN Clean(IF done = <<>> THEN done ELSE SubSeq(done, 1, Len(done) - 1), Tail(segs))
         ELSE Clean(Append(done, x), Tail(segs))

\* func (u *URL) JoinPath(elem ...string) *URL: path.Join of the URL's path
\* and the elements, each element here being one "/"-free string.
JoinPath(u, elem) == Clean(<<>>, u \o elem)

URL(p) == [built |-> TRUE, path |-> p]

NoURL == [built |-> FALSE, path |-> <<>>]

\* func (c *Client) buildURL(pathElements ...any) *url.URL; elem[0] is
\* "/api/v2", two segments.
buildURL(base, elems) ==
    URL(JoinPath(base, <<"api", "v2">> \o [i \in 1..Len(elems) |-> PathEscape(elems[i])]))

\* func (c *Client) buildTailnetURL(pathElements ...any) *url.URL; the
\* element "tailnet" is given as its characters would be.
buildTailnetURL(base, tailnet, elems) == buildURL(base, <<<<"tailnet">>, tailnet>> \o elems)

\* c.BaseURL == nil: the field of a tsclient Client was never assigned.
NilBaseURL == <<"<nil>">>

\* The host of a base URL: the default one is https://api.tailscale.com,
\* the other one https://proxy.example/proxy.
Host(base) == IF base = defaultBaseURL THEN "api.tailscale.com" ELSE "proxy.example"

\* url.Parse("/api/v2/oauth/token")
oauthRelTokenURL == <<"api", "v2", "oauth", "token">>

NoTokenURL == [host |-> "", path |-> <<>>]

\* base.ResolveReference(ref) for a rooted ref: the host of the base URL and
\* the path of ref.  A nil base is a nil pointer dereference.
ResolveReference(base, ref) == [host |-> Host(base), path |-> ref]

\* strings.Split(s, "/") on a string given character by character.
RECURSIVE Split(_, _, _)
Split(done, cur, cs) ==
    IF cs = <<>> THEN Append(done, cur)
    ELSE IF Head(cs) = "/" THEN Split(Append(done, cur), "", Tail(cs))
    ELSE Split(done, cur \o Head(cs), Tail(cs))

\* The dot-segment removal of URL.ResolveReference on a rooted path: "."
\* disappears, ".." removes the segment before it, empty segments stay.
RECURSIVE RemoveDots(_, _)
RemoveDots(done, segs) ==
    IF segs = <<>> THEN done
    ELSE LET x == Head(segs) IN
         IF x = "." THEN RemoveDots(done, Tail(segs))
         ELSE IF x = ".." THEN RemoveDots(IF done = <<>> THEN done ELSE SubSeq(done, 1, Len(done) - 1), Tail(segs))
         ELSE RemoveDots(Append(done, x), Tail(segs))

\* resolvePath: a path ending in "." or ".." resolves to one ending in "/".
ResolvePath(segs) ==
    LET r == RemoveDots(<<>>, segs) IN
    IF segs # <<>> /\ segs[Len(segs)] \in {".", ".."} THEN Append(r, "") ELSE r

\* package tailscale: c.baseURL.Parse(uri) in buildRequest, for a rooted uri
\* without '?' and '#': the uri's path replaces the base URL's.
ParseRef(uri) == URL(ResolvePath(Split(<<>>, "", Tail(uri))))

\* package tailscale: fmt.Sprintf("/api/v2/tailnet/%s/keys/%s", kr.tailnetPathEscaped, id)
KeyURI(tailnet, id) ==
    <<"/", "api", "/", "v2", "/", "tailnet", "/", PathEscape(tailnet), "/", "keys", "/">> \o id

\* package tailscale: fmt.Sprintf("/api/v2/tailnet/%s/keys", kr.tailnetPathEscaped)
KeysURI(tailnet) ==
    <<"/", "api", "/", "v2", "/", "tailnet", "/", PathEscape(tailnet), "/", "keys">>

(***************************************************************************)
(* http.Header                                                             *)
(***************************************************************************)
EmptyHeader == [k \in {} |-> ""]

\* textproto.CanonicalMIMEHeaderKey, which Header.Set and Header.Get apply
\* to the name, on the names used here.
CanonicalMIMEHeaderKey(k) ==
    CASE k = "user-agent"    -> "User-Agent"
      [] k = "content-type"  -> "Content-Type"
      [] k = "authorization" -> "Authorization"
      [] OTHER               -> k

HeaderSet(h, k, v) ==
    LET ck == CanonicalMIMEHeaderKey(k) IN
    [x \in DOMAIN h \cup {ck} |-> IF x = ck THEN v ELSE h[x]]

\* for k, v := range headers { req.Header.Set(k, v) }, for a map whose keys
\* have different canonical forms
HeaderSetAll(h, m) ==
    LET from(x) == {k \in DOMAIN m : CanonicalMIMEHeaderKey(k) = x} IN
    [x \in DOMAIN h \cup {CanonicalMIMEHeaderKey(k) : k \in DOMAIN m} |->
        IF from(x) # {} THEN m[CHOOSE k \in from(x) : TRUE] ELSE h[x]]

HeaderGet(h, k) ==
    LET ck == CanonicalMIMEHeaderKey(k) IN
    IF ck \in DOMAIN h THEN h[ck] ELSE ""

\* base64.StdEncoding of "username:password" for the credentials in use.
Base64(s) ==
    CASE s = "tskey-api-k1:" -> "dHNrZXktYXBpLWsxOg=="
      [] s = ":"             -> "Og=="
      [] OTHER               -> "?"

\* req.SetBasicAuth(username, password)
SetBasicAuth(h, username, password) ==
    HeaderSet(h, "Authorization", "Basic " \o Base64(username \o ":" \o password))

\* req.BasicAuth(): the credentials a server reads back from the header.
BasicAuth(h) ==
    LET a == HeaderGet(h, "Authorization") IN
    CASE a = "Basic dHNrZXktYXBpLWsxOg==" -> [ok |-> TRUE, username |-> "tskey-api-k1", password |-> ""]
      [] a = "Basic Og=="                 -> [ok |-> TRUE, username |-> "", password |-> ""]
      [] OTHER                            -> [ok |-> FALSE, username |-> "", password |-> ""]

(***************************************************************************)
(* Values passed as `any`: request bodies and policy-file arguments.       *)
(*   type  "nil", "string", "[]byte", "ACL", "*ACL"                        *)
(***************************************************************************)
ACLValues == {[DisableIPv4 |-> d, OneCGNATRoute |-> r] : <<d, r>> \in {<<FALSE, "">>, <<TRUE, "mixed">>}}

ZeroACL == [DisableIPv4 |-> FALSE, OneCGNATRoute |-> ""]

PolicyTexts == {"{\"disableIPv4\":true,} // hujson", "not json"}

Iface(t, s, a) == [type |-> t, str |-> s, acl |-> a]

NilIface == Iface("nil", "", ZeroACL)

PolicyArgs ==
    {Iface("ACL", "", a) : a \in ACLValues} \cup {Iface("string", s, ZeroACL) : s \in PolicyTexts}
    \cup {Iface("[]byte", "{}", ZeroACL), Iface("*ACL", "", ZeroACL)}

RECURSIVE Join(_, _)
Join(parts, sep) ==
    IF parts = <<>> THEN ""
    ELSE IF Len(parts) = 1 THEN parts[1]
    ELSE parts[1] \o sep \o Join(Tail(parts), sep)

\* The members of an ACL that survive omitempty, in struct order.
ACLMembers(a, colon) ==
    (IF a.DisableIPv4 THEN <<"\"disableIPv4\"" \o colon \o "true">> ELSE <<>>)
    \o (IF a.OneCGNATRoute # "" THEN <<"\"oneCGNATRoute\"" \o colon \o "\"" \o a.OneCGNATRoute \o "\"">> ELSE <<>>)

\* DNSPreferences{MagicDNS: m} passed as a request body
DNSPreferences(m) == [type |-> "DNSPreferences", str |-> "", acl |-> ZeroACL, MagicDNS |-> m]

\* map[string][]string{"searchPaths": searchPaths} passed as a request body
SearchPathsBody(searchPaths) ==
    [type |-> "map[string][]string", str |-> "", acl |-> ZeroACL, searchPaths |-> searchPaths]

SearchPathLists == {<<"a.example">>, <<"b.example">>}

\* json.Marshal of a struct value (or of a pointer to one) or of a map
Marshal(v) ==
    CASE v.type = "DNSPreferences" -> "{\"magicDNS\":" \o (IF v.MagicDNS THEN "true" ELSE "false") \o "}"
      [] v.type = "map[string][]string" ->
            "{\"searchPaths\":[" \o Join([i \in 1..Len(v.searchPaths) |-> "\"" \o v.searchPaths[i] \o "\""], ",") \o "]}"
      [] OTHER -> "{" \o Join(ACLMembers(v.acl, ":"), ",") \o "}"

\* json.MarshalIndent(v, "", " ")
MarshalIndent(v) ==
    LET m == ACLMembers(v.acl, ": ") IN
    IF m = <<>> THEN "{}" ELSE "{\n " \o Join(m, ",\n ") \o "\n}"

(***************************************************************************)
(* The ACL struct with its slices and maps, and its JSON encoding as a     *)
(* tree.  A Go slice or map is nil or holds elements; a JSON value is null,*)
(* a bool, a string, an array (items) or an object (members in the order   *)
(* of the text).                                                           *)
(***************************************************************************)
NilSlice == [isNil |-> TRUE, elems |-> <<>>]

Slice(es) == [isNil |-> FALSE, elems |-> es]

NoEntries == [k \in {} |-> ""]

NilMap == [isNil |-> TRUE, entries |-> NoEntries]

Map(f) == [isNil |-> FALSE, entries |-> f]

MapLen(m) == Cardinality(DOMAIN m.entries)

J(kind, str, bool, items) == [kind |-> kind, str |-> str, bool |-> bool, items |-> items]

JNull == J("null", "", FALSE, <<>>)
JBool(b) == J("bool", "", b, <<>>)
JString(x) == J("string", x, FALSE, <<>>)
JArray(items) == J("array", "", FALSE, items)
JObject(members) == J("object", "", FALSE, members)

Member(k, v) == [key |-> k, value |-> v]

\* The map keys of the model in the order encoding/json sorts them.
KeyOrder == <<"group:a", "group:b", "h1", "tag:x">>

SortedKeys(S) == SelectSeq(KeyOrder, LAMBDA k : k \in S)

StringSlices == {NilSlice, Slice(<<>>), Slice(<<"u1">>), Slice(<<"u2", "u1">>)}

ACLEntry(action, ports) == [Action |-> action, Ports |-> ports]

ACLStructs ==
    [ACLs : {NilSlice, Slice(<<>>), Slice(<<ACLEntry("accept", Slice(<<"*:*">>))>>),
             Slice(<<ACLEntry("", Slice(<<>>))>>)},
     Groups : {NilMap, Map(NoEntries), Map([k \in {"group:b", "group:a"} |-> Slice(<<k>>)])}
              \cup {Map([k \in {"group:a"} |-> x]) : x \in StringSlices},
     Hosts : {NilMap, Map(NoEntries), Map([k \in {"h1"} |-> "100.100.100.100"])},
     TagOwners : {NilMap, Map(NoEntries), Map([k \in {"tag:x"} |-> Slice(<<"group:a">>)])},
     DisableIPv4 : BOOLEAN,
     OneCGNATRoute : {"", "mixed"}]

\* var acl ACL
NewACL ==
    [ACLs |-> NilSlice, Groups |-> NilMap, Hosts |-> NilMap, TagOwners |-> NilMap,
     DisableIPv4 |-> FALSE, OneCGNATRoute |-> ""]

\* json.Marshal of a []string
MarshalStrings(x) == IF x.isNil THEN JNull ELSE JArray([i \in 1..Len(x.elems) |-> JString(x.elems[i])])

\* json.Marshal of a map[string][]string: members sorted by key
MarshalStringsMap(m) ==
    LET keys == SortedKeys(DOMAIN m.entries) IN
    IF m.isNil THEN JNull
    ELSE JObject([i \in 1..Len(keys) |-> Member(keys[i], MarshalStrings(m.entries[keys[i]]))])

\* json.Marshal of a map[string]string
MarshalStringMap(m) ==
    LET keys == SortedKeys(DOMAIN m.entries) IN
    IF m.isNil THEN JNull
    ELSE JObject([i \in 1..Len(keys) |-> Member(keys[i], JString(m.entries[keys[i]]))])

\* A struct member with `omitempty`: left out when the value is empty.
OmitEmptyMember(empty, k, v) == IF empty THEN <<>> ELSE <<Member(k, v)>>

\* json.Marshal of an ACLEntry
MarshalACLEntry(e) ==
    JObject(OmitEmptyMember(e.Action = "", "action", JString(e.Action))
            \o OmitEmptyMember(Len(e.Ports.elems) = 0, "ports", MarshalStrings(e.Ports)))

\* json.Marshal of a []ACLEntry
MarshalACLEntries(x) ==
    IF x.isNil THEN JNull ELSE JArray([i \in 1..Len(x.elems) |-> MarshalACLEntry(x.elems[i])])

\* json.Marshal of an ACL with the hosts member under a misspelt tag.
MarshalACL_hostsTag(a) ==
    JObject(OmitEmptyMember(Len(a.ACLs.elems) = 0, "acls", MarshalACLEntries(a.ACLs))
            \o OmitEmptyMember(MapLen(a.Groups) = 0, "groups", MarshalStringsMap(a.Groups))
            \o OmitEmptyMember(MapLen(a.Hosts) = 0, "host", MarshalStringMap(a.Hosts))
            \o OmitEmptyMember(MapLen(a.TagOwners) = 0, "tagOwners", MarshalStringsMap(a.TagOwners))
            \o OmitEmptyMember(~a.DisableIPv4, "disableIPv4", JBool(a.DisableIPv4))
            \o OmitEmptyMember(a.OneCGNATRoute = "", "oneCGNATRoute", JString(a.OneCGNATRoute)))

\* json.Marshal of an ACL: the members in struct order, by their json tags
MarshalACL(a) ==
    JObject(OmitEmptyMember(Len(a.ACLs.elems) = 0, "acls", MarshalACLEntries(a.ACLs))
            \o OmitEmptyMember(MapLen(a.Groups) = 0, "groups", MarshalStringsMap(a.Groups))
            \o OmitEmptyMember(MapLen(a.Hosts) = 0, "hosts", MarshalStringMap(a.Hosts))
            \o OmitEmptyMember(MapLen(a.TagOwners) = 0, "tagOwners", MarshalStringsMap(a.TagOwners))
            \o OmitEmptyMember(~a.DisableIPv4, "disableIPv4", JBool(a.DisableIPv4))
            \o OmitEmptyMember(a.OneCGNATRoute = "", "oneCGNATRoute", JString(a.OneCGNATRoute)))

\* The members of a JSON object with a given key.
HasMember(j, k) == \E i \in 1..Len(j.items) : j.items[i].key = k

\* The value json.Unmarshal keeps for a key: that of its last member.
MemberValue(j, k) ==
    LET last == CHOOSE i \in 1..Len(j.items) :
                    j.items[i].key = k /\ \A n \in 1..Len(j.items) : j.items[n].key = k => n <= i
    IN j.items[last].value

MemberKeys(j) == {j.items[i].key : i \in 1..Len(j.items)}

\* json.Unmarshal into a []string
UnmarshalStrings(j, old) ==
    IF j.kind = "null" THEN old ELSE Slice([i \in 1..Len(j.items) |-> j.items[i].str])

\* json.Unmarshal into a nil map[string][]string
UnmarshalStringsMap(j, old) ==
    IF j.kind = "null" THEN old
    ELSE Map([k \in MemberKeys(j) |-> UnmarshalStrings(MemberValue(j, k), NilSlice)])

\* json.Unmarshal into a nil map[string]string
UnmarshalStringMap(j, old) ==
    IF j.kind = "null" THEN old ELSE Map([k \in MemberKeys(j) |-> MemberValue(j, k).str])

\* json.Unmarshal into an ACLEntry
UnmarshalACLEntry(j) ==
    ACLEntry(IF HasMember(j, "action") THEN MemberValue(j, "action").str ELSE "",
             IF HasMember(j, "ports") THEN UnmarshalStrings(MemberValue(j, "ports"), NilSlice) ELSE NilSlice)

\* json.Unmarshal into a []ACLEntry
UnmarshalACLEntries(j, old) ==
    IF j.kind = "null" THEN old ELSE Slice([i \in 1..Len(j.items) |-> UnmarshalACLEntry(j.items[i])])

\* json.Unmarshal(data, &acl): a member sets its field, a missing member
\* leaves the field as it was.
UnmarshalACL(j, a) ==
    [ACLs |-> IF HasMember(j, "acls") THEN UnmarshalACLEntries(MemberValue(j, "acls"), a.ACLs) ELSE a.ACLs,
     Groups |-> IF HasMember(j, "groups") THEN UnmarshalStringsMap(MemberValue(j, "groups"), a.Groups) ELSE a.Groups,
     Hosts |-> IF HasMember(j, "hosts") THEN UnmarshalStringMap(MemberValue(j, "hosts"), a.Hosts) ELSE a.Hosts,
     TagOwners |-> IF HasMember(j, "tagOwners") THEN UnmarshalStringsMap(MemberValue(j, "tagOwners"), a.TagOwners)
                   ELSE a.TagOwners,
     DisableIPv4 |-> IF HasMember(j, "disableIPv4") THEN MemberValue(j, "disableIPv4").bool ELSE a.DisableIPv4,
     OneCGNATRoute |-> IF HasMember(j, "oneCGNATRoute") THEN MemberValue(j, "oneCGNATRoute").str ELSE a.OneCGNATRoute]

(***************************************************************************)
(* Time: a time.Time with its own UnmarshalJSON.  An instant is its UTC    *)
(* rendering together with the zone offset it was read with.               *)
(***************************************************************************)
Instant(utc, offset) == [utc |-> utc, offset |-> offset]

\* Time{}: the zero time.Time
ZeroTime == Instant("0001-01-01T00:00:00Z", "Z")

EmptyString == "\"\""
TimeUTC == "\"2022-03-05T17:10:27Z\""
TimeOffset == "\"2006-01-02T15:04:05-04:00\""
TimeInvalid == "\"2022-13-05T17:10:27Z\""
TimeNull == "null"

TimeTexts == {EmptyString, TimeUTC, TimeOffset, TimeInvalid, TimeNull}

ParseError == MkError("*time.ParseError", "", 0, "parsing time: month out of range")

\* json.Unmarshal(data, &t.Time), that is time.Time's UnmarshalJSON: null is
\* ignored; otherwise *t, err = Parse(RFC3339, data), which also assigns
\* the zero Time when it fails.
UnmarshalTime(t, data) ==
    CASE data = TimeNull   -> [err |-> Nil, t |-> t]
      [] data = TimeUTC    -> [err |-> Nil, t |-> Instant("2022-03-05T17:10:27Z", "Z")]
      [] data = TimeOffset -> [err |-> Nil, t |-> Instant("2006-01-02T19:04:05Z", "-04:00")]
      [] OTHER             -> [err |-> ParseError, t |-> ZeroTime]

\* func (t *Time) UnmarshalJSON(data []byte) error
UnmarshalJSON(t, data) ==
    IF data = EmptyString THEN [err |-> Nil, t |-> t]
    ELSE UnmarshalTime(t, data)

\* Nothing has been decoded into the Time.
NoDecodes ==
    /\ timeValue = ZeroTime
    /\ timeData = <<>>
    /\ timeErr = Nil

\* Nothing has been encoded or decoded.
NoCodec ==
    /\ aclValue = NewACL
    /\ aclJSON = <<>>
    /\ aclDecoded = <<>>
    /\ NoDecodes

(***************************************************************************)
(* Request builders                                                        *)
(***************************************************************************)
DefaultParams == [headers |-> EmptyHeader, body |-> NilIface, contentType |-> defaultContentType]

requestBody(rof, body) == [rof EXCEPT !.body = body]

requestHeaders(rof, headers) == [rof EXCEPT !.headers = headers]

requestContentType(rof, ct) == [rof EXCEPT !.contentType = ct]

Request(method, path, header, body) == [method |-> method, path |-> path, header |-> header, body |-> body]

NoRequest == Request("", <<>>, EmptyHeader, "")

\* The context.Context a call is given: a live one, or nil.
Background == "context.Background()"
NilContext == "nil"

Contexts == {Background, NilContext}

\* http.NewRequestWithContext: errors.New("net/http: nil Context")
NilContextError == MkError("*errors.errorString", "", 0, "net/http: nil Context")

\* buildRequest calling SetBasicAuth whether or not a key is configured.
buildRequest_authAlways(ctx, c, method, path, rof) ==
    LET bodyBytes == CASE rof.body.type = "nil"    -> ""
                       [] rof.body.type = "string" -> rof.body.str
                       [] rof.body.type = "[]byte" -> rof.body.str
                       [] OTHER                    -> Marshal(rof.body)
        h1 == IF c.UserAgent # "" THEN HeaderSet(EmptyHeader, "User-Agent", c.UserAgent) ELSE EmptyHeader
        h2 == HeaderSetAll(h1, rof.headers)
        h3 == IF rof.body.type = "nil" THEN HeaderSet(h2, "Accept", rof.contentType)
              ELSE HeaderSet(h2, "Content-Type", rof.contentType)
    IN IF ctx = NilContext THEN [err |-> NilContextError, req |-> NoRequest]
       ELSE [err |-> Nil, req |-> Request(method, path, SetBasicAuth(h3, c.APIKey, ""), bodyBytes)]

\* buildRequest setting Content-Type even when there is no body.
buildRequest_contentTypeAlways(ctx, c, method, path, rof) ==
    LET bodyBytes == CASE rof.body.type = "nil"    -> ""
                       [] rof.body.type = "string" -> rof.body.str
                       [] rof.body.type = "[]byte" -> rof.body.str
                       [] OTHER                    -> Marshal(rof.body)
        h1 == IF c.UserAgent # "" THEN HeaderSet(EmptyHeader, "User-Agent", c.UserAgent) ELSE EmptyHeader
        h2 == HeaderSetAll(h1, rof.headers)
        h3 == HeaderSet(h2, "Content-Type", rof.contentType)
        h4 == IF c.APIKey # "" THEN SetBasicAuth(h3, c.APIKey, "") ELSE h3
    IN IF ctx = NilContext THEN [err |-> NilContextError, req |-> NoRequest]
       ELSE [err |-> Nil, req |-> Request(method, path, h4, bodyBytes)]

\* buildRequest without the string case: a string body is JSON-encoded.
buildRequest_marshalString(ctx, c, method, path, rof) ==
    LET bodyBytes == CASE rof.body.type = "nil"    -> ""
                       [] rof.body.type = "string" -> "\"" \o rof.body.str \o "\""
                       [] rof.body.type = "[]byte" -> rof.body.str
                       [] OTHER                    -> Marshal(rof.body)
        h1 == IF c.UserAgent # "" THEN HeaderSet(EmptyHeader, "User-Agent", c.UserAgent) ELSE EmptyHeader
        h2 == HeaderSetAll(h1, rof.headers)
        h3 == IF rof.body.type = "nil" THEN HeaderSet(h2, "Accept", rof.contentType)
              ELSE HeaderSet(h2, "Content-Type", rof.contentType)
        h4 == IF c.APIKey # "" THEN SetBasicAuth(h3, c.APIKey, "") ELSE h3
    IN IF ctx = NilContext THEN [err |-> NilContextError, req |-> NoRequest]
       ELSE [err |-> Nil, req |-> Request(method, path, h4, bodyBytes)]

\* buildRequest applying the caller's headers after its own.
buildRequest_headersLast(ctx, c, method, path, rof) ==
    LET bodyBytes == CASE rof.body.type = "nil"    -> ""
                       [] rof.body.type = "string" -> rof.body.str
                       [] rof.body.type = "[]byte" -> rof.body.str
                       [] OTHER                    -> Marshal(rof.body)
        h1 == IF c.UserAgent # "" THEN HeaderSet(EmptyHeader, "User-Agent", c.UserAgent) ELSE EmptyHeader
        h3 == IF rof.body.type = "nil" THEN HeaderSet(h1, "Accept", rof.contentType)
              ELSE HeaderSet(h1, "Content-Type", rof.contentType)
        h4 == IF c.APIKey # "" THEN SetBasicAuth(h3, c.APIKey, "") ELSE h3
    IN IF ctx = NilContext THEN [err |-> NilContextError, req |-> NoRequest]
       ELSE [err |-> Nil, req |-> Request(method, path, HeaderSetAll(h4, rof.headers), bodyBytes)]

\* tsclient: func (c *Client) buildRequest(ctx, method, uri, opts...)
buildRequest(ctx, c, method, path, rof) ==
    LET bodyBytes == CASE rof.body.type = "nil"    -> ""
                       [] rof.body.type = "string" -> rof.body.str
                       [] rof.body.type = "[]byte" -> rof.body.str
                       [] OTHER                    -> Marshal(rof.body)
        h1 == IF c.UserAgent # "" THEN HeaderSet(EmptyHeader, "User-Agent", c.UserAgent) ELSE EmptyHeader
        h2 == HeaderSetAll(h1, rof.headers)
        h3 == IF rof.body.type = "nil" THEN HeaderSet(h2, "Accept", rof.contentType)
              ELSE HeaderSet(h2, "Content-Type", rof.contentType)
        h4 == IF c.APIKey # "" THEN SetBasicAuth(h3, c.APIKey, "") ELSE h3
    IN IF ctx = NilContext THEN [err |-> NilContextError, req |-> NoRequest]
       ELSE [err |-> Nil, req |-> Request(method, path, h4, bodyBytes)]

\* package tailscale with request options: the same builder, MarshalIndent
tailscale_buildRequest(c, method, path, rof) ==
    LET bodyBytes == CASE rof.body.type = "nil"    -> ""
                       [] rof.body.type = "string" -> rof.body.str
                       [] rof.body.type = "[]byte" -> rof.body.str
                       [] OTHER                    -> MarshalIndent(rof.body)
        h1 == IF c.UserAgent # "" THEN HeaderSet(EmptyHeader, "User-Agent", c.UserAgent) ELSE EmptyHeader
        h2 == HeaderSetAll(h1, rof.headers)
        h3 == IF rof.body.type = "nil" THEN HeaderSet(h2, "Accept", rof.contentType)
              ELSE HeaderSet(h2, "Content-Type", rof.contentType)
        h4 == IF c.APIKey # "" THEN SetBasicAuth(h3, c.APIKey, "") ELSE h3
    IN [err |-> Nil, req |-> Request(method, path, h4, bodyBytes)]

\* earliest package tailscale: buildRequest(ctx, method, uri, headers, body)
flat_buildRequest(c, method, path, headers, body) ==
    LET bodyBytes == IF body.type # "nil" THEN MarshalIndent(body) ELSE ""
        h2 == HeaderSetAll(EmptyHeader, headers)
        h3 == IF body.type = "nil" THEN HeaderSet(h2, "Accept", defaultContentType)
              ELSE HeaderSet(h2, "Content-Type", defaultContentType)
        h4 == IF c.APIKey # "" THEN SetBasicAuth(h3, c.APIKey, "") ELSE h3
    IN [err |-> Nil, req |-> Request(method, path, h4, bodyBytes)]

(***************************************************************************)
(* Transport answers and the response normalizers                          *)
(***************************************************************************)
Response(kind, status, body) == [kind |-> kind, status |-> status, body |-> body]

NoResponse == Response("none", 0, "")

\* What c.HTTP.Do(req) followed by io.ReadAll(res.Body) can produce.
Responses ==
    {Response("response", s, b) : s \in Statuses, b \in Bodies}
    \cup {Response("transportError", 0, ""), Response("readError", 200, "")}

\* The 2xx branch standardizing the body before copying it to a []byte.
decodeSuccess_standardizeBytes(body, o) ==
    IF o.type = "nil" THEN [err |-> Nil, out |-> o]
    ELSE LET std == IF ~JSONValid(body) THEN Standardize(body) ELSE [err |-> Nil, body |-> body] IN
         IF std.err # Nil THEN [err |-> std.err, out |-> o]
         ELSE IF o.type = "bytes" THEN [err |-> Nil, out |-> [o EXCEPT !.bytes = std.body, !.set = TRUE]]
         ELSE Unmarshal(std.body, o)

\* The 2xx branch decoding the body without the hujson.Standardize step.
decodeSuccess_noStandardize(body, o) ==
    IF o.type = "nil" THEN [err |-> Nil, out |-> o]
    ELSE IF o.type = "bytes" THEN [err |-> Nil, out |-> [o EXCEPT !.bytes = body, !.set = TRUE]]
    ELSE Unmarshal(body, o)

\* The 2xx branch without the `out == nil` early return.
decodeSuccess_parseAlways(body, o) ==
    IF o.type = "bytes" THEN [err |-> Nil, out |-> [o EXCEPT !.bytes = body, !.set = TRUE]]
    ELSE LET std == IF ~JSONValid(body) THEN Standardize(body) ELSE [err |-> Nil, body |-> body] IN
         IF std.err # Nil THEN [err |-> std.err, out |-> o]
         ELSE IF o.type = "nil" THEN [err |-> MkError("*json.InvalidUnmarshalError", "", 0, "json: Unmarshal(nil)"), out |-> o]
         ELSE Unmarshal(std.body, o)

\* The 2xx branch shared by Client.do and the second performRequest.
decodeSuccess(body, o) ==
    IF o.type = "nil" THEN [err |-> Nil, out |-> o]
    ELSE IF o.type = "bytes" THEN [err |-> Nil, out |-> [o EXCEPT !.bytes = body, !.set = TRUE]]
    ELSE LET std == IF ~JSONValid(body) THEN Standardize(body) ELSE [err |-> Nil, body |-> body] IN
         IF std.err # Nil THEN [err |-> std.err, out |-> o]
         ELSE Unmarshal(std.body, o)

\* The error branch returning the decoded APIError without its status.
decodeAPIError_noStatus(r, o) ==
    LET u == Unmarshal(r.body, Dest("APIError")) IN
    IF u.err # Nil THEN [err |-> u.err, out |-> o]
    ELSE [err |-> [APIError(u.out.Message) EXCEPT !.Data = u.out.Data], out |-> o]

\* The error branch decoding the body into the caller's destination too.
decodeAPIError_intoOut(r, o) ==
    LET u == Unmarshal(r.body, Dest("APIError")) IN
    IF u.err # Nil THEN [err |-> u.err, out |-> Unmarshal(r.body, o).out]
    ELSE [err |-> [APIError(u.out.Message) EXCEPT !.Data = u.out.Data, !.status = r.status],
          out |-> Unmarshal(r.body, o).out]

\* The error branch: decode the body as APIError, then attach the status.
decodeAPIError(r, o) ==
    LET u == Unmarshal(r.body, Dest("APIError")) IN
    IF u.err # Nil THEN [err |-> u.err, out |-> o]
    ELSE [err |-> [APIError(u.out.Message) EXCEPT !.Data = u.out.Data, !.status = r.status], out |-> o]

\* tsclient: func (c *Client) do(req, out) error
do(r, o) ==
    IF r.kind = "transportError" THEN [err |-> TransportError, out |-> o]
    ELSE IF r.kind = "readError" THEN [err |-> ReadError, out |-> o]
    ELSE IF r.status >= StatusOK /\ r.status < StatusMultipleChoices THEN decodeSuccess(r.body, o)
    ELSE IF r.status >= StatusBadRequest THEN decodeAPIError(r, o)
    ELSE [err |-> Nil, out |-> o]

\* package tailscale with request options: func (c *Client) performRequest(req, out) error
performRequest(r, o) ==
    IF r.kind = "transportError" THEN [err |-> TransportError, out |-> o]
    ELSE IF r.kind = "readError" THEN [err |-> ReadError, out |-> o]
    ELSE IF r.status >= StatusOK /\ r.status < StatusMultipleChoices THEN decodeSuccess(r.body, o)
    ELSE IF r.status # StatusOK /\ r.status # StatusCreated THEN decodeAPIError(r, o)
    ELSE [err |-> Nil, out |-> o]

\* earliest package tailscale: performRequest without the []byte destination
flat_performRequest(r, o) ==
    IF r.kind = "transportError" THEN [err |-> TransportError, out |-> o]
    ELSE IF r.kind = "readError" THEN [err |-> ReadError, out |-> o]
    ELSE IF r.status >= StatusOK /\ r.status < StatusMultipleChoices THEN
        IF o.type = "nil" THEN [err |-> Nil, out |-> o]
        ELSE LET std == IF ~JSONValid(r.body) THEN Standardize(r.body) ELSE [err |-> Nil, body |-> r.body] IN
             IF std.err # Nil THEN [err |-> std.err, out |-> o]
             ELSE Unmarshal(std.body, o)
    ELSE IF r.status # StatusOK /\ r.status # StatusCreated THEN decodeAPIError(r, o)
    ELSE [err |-> Nil, out |-> o]

(***************************************************************************)
(* Construction                                                            *)
(***************************************************************************)
Config(k, ua, h, b) == [APIKey |-> k, UserAgent |-> ua, HTTP |-> h, BaseURL |-> b, TokenURL |-> NoTokenURL]

Option(name, arg) == [name |-> name, arg |-> arg]

Options(p) ==
    {Option("WithOAuthClientCredentials", "")}
    \cup (IF p = "tailscale" THEN {Option("WithUserAgent", ua) : ua \in UserAgents} ELSE {})

OptionLists(p) == SeqsUpTo(Options(p), 1)

\* url.Parse on the base URLs handed to WithBaseURL: one that parses, with
\* the path /proxy, and two that do not.
GoodURL == "https://proxy.example/proxy"
BadScheme == ":"
BadEscape == "%zz"

ParseURL(u) ==
    CASE u = GoodURL   -> [err |-> Nil, url |-> <<"proxy">>]
      [] u = BadScheme -> [err |-> MkError("*url.Error", "", 0, "parse \":\": missing protocol scheme"), url |-> <<>>]
      [] OTHER         -> [err |-> MkError("*url.Error", "", 0, "parse \"%zz\": invalid URL escape \"%zz\""), url |-> <<>>]

\* Every ClientOption of the package, WithBaseURL included.
ClientOptions(p) == Options(p) \cup {Option("WithBaseURL", u) : u \in {GoodURL, BadScheme, BadEscape}}

ClientOptionLists(p) == SeqsUpTo(ClientOptions(p), MaxOptions)

\* The error a ClientOption returns.
OptionError(o) == IF o.name = "WithBaseURL" THEN ParseURL(o.arg).err ELSE Nil

\* One ClientOption applied to the client under construction.
ApplyOption(c, o) ==
    CASE o.name = "WithOAuthClientCredentials" ->
            [c EXCEPT !.HTTP = "oauth", !.TokenURL = ResolveReference(c.BaseURL, oauthRelTokenURL)]
      [] o.name = "WithBaseURL" -> IF OptionError(o) = Nil THEN [c EXCEPT !.BaseURL = ParseURL(o.arg).url] ELSE c
      [] OTHER -> [c EXCEPT !.UserAgent = o.arg]

\* for _, option := range options { if err = option(c); err != nil { return nil, err } }
RECURSIVE ApplyOptions(_, _)
ApplyOptions(c, os) ==
    IF os = <<>> THEN [err |-> Nil, c |-> c]
    ELSE IF OptionError(Head(os)) # Nil THEN [err |-> OptionError(Head(os)), c |-> c]
    ELSE ApplyOptions(ApplyOption(c, Head(os)), Tail(os))

NoCredentials == MkError("*errors.errorString", "", 0, "no authentication credentials provided")

\* NewClient without the final credentials check.
NewClient_noCredentialCheck(p, apiKey, options) ==
    LET c0 == Config("", IF p = "tailscale" THEN defaultUserAgent ELSE "", "nil", defaultBaseURL)
        c1 == IF apiKey # "" THEN [c0 EXCEPT !.APIKey = apiKey, !.HTTP = "default"] ELSE c0
        c2 == ApplyOptions(c1, options)
    IN IF c2.err # Nil THEN [err |-> c2.err, c |-> c2.c]
       ELSE [err |-> Nil, c |-> c2.c]

\* package tailscale: func NewClient(apiKey, tailnet, options...) (*Client, error)
NewClient(p, apiKey, options) ==
    LET c0 == Config("", IF p = "tailscale" THEN defaultUserAgent ELSE "", "nil", defaultBaseURL)
        c1 == IF apiKey # "" THEN [c0 EXCEPT !.APIKey = apiKey, !.HTTP = "default"] ELSE c0
        c2 == ApplyOptions(c1, options)
    IN IF c2.err # Nil THEN [err |-> c2.err, c |-> c2.c]
       ELSE IF c2.c.APIKey = "" /\ c2.c.HTTP = "nil" THEN [err |-> NoCredentials, c |-> c2.c]
       ELSE [err |-> Nil, c |-> c2.c]

\* init assigning the default HTTP client whatever c.HTTP holds.
init_defaultHTTP ==
    IF initDone THEN Config(APIKey, UserAgent, HTTP, BaseURL)
    ELSE Config(APIKey,
                IF UserAgent = "" THEN defaultUserAgent ELSE UserAgent,
                "default",
                IF BaseURL = NilBaseURL THEN defaultBaseURL ELSE BaseURL)

\* tsclient: func (c *Client) init(), the body run under initOnce
init ==
    IF initDone THEN Config(APIKey, UserAgent, HTTP, BaseURL)
    ELSE Config(APIKey,
                IF UserAgent = "" THEN defaultUserAgent ELSE UserAgent,
                IF HTTP = "nil" THEN "default" ELSE HTTP,
                IF BaseURL = NilBaseURL THEN defaultBaseURL ELSE BaseURL)

\* The client a facade method sees: tsclient accessors run init first.
Receiver == IF pkg = "tsclient" THEN init ELSE Config(APIKey, UserAgent, HTTP, BaseURL)

NoOp == [name |-> "", acl |-> NilIface, supplied |-> FALSE, etag |-> <<>>, ctx |-> Background]

\* The resource accessors of the Client that the model follows.
Accessors == {"Devices", "Keys"}

Goroutines == 1..NumGoroutines

\* A facade pointer: &DevicesResource{c} allocated by the n-th entry into
\* the body of init, or nil.
Facade(owner, n) == [Client |-> owner, alloc |-> n]

NilFacade == Facade("nil", 0)

\* No goroutine has touched the Client.
NoGoroutines ==
    /\ onceM = 0
    /\ facades = [a \in Accessors |-> NilFacade]
    /\ initRuns = 0
    /\ goroutines = [g \in Goroutines |-> [pc |-> "idle", accessor |-> "", returned |-> <<>>, req |-> NoRequest]]

Init ==
    /\ pkg \in Packages
    /\ \/ /\ pkg = "tsclient"
          /\ client = "ok"
          /\ APIKey \in Keys
          /\ UserAgent \in UserAgents
          /\ HTTP \in {"nil", "custom"}
       \/ /\ pkg \in {"tailscale", "flat"}
          /\ \E k \in Keys, os \in OptionLists(pkg) :
                LET n == NewClient(pkg, k, os) IN
                /\ client = IF n.err = Nil THEN "ok" ELSE "nil"
                /\ APIKey = n.c.APIKey
                /\ UserAgent = n.c.UserAgent
                /\ HTTP = n.c.HTTP
    /\ initDone = FALSE
    /\ op = NoOp
    /\ req = NoRequest
    /\ res = NoResponse
    /\ err = Nil
    /\ out = NoDest
    /\ pc = "idle"
    /\ transport = <<>>
    /\ BaseURL = defaultBaseURL
    /\ Tailnet = <<"a">>
    /\ pathElements = <<>>
    /\ url = NoURL
    /\ TokenURL = (IF HTTP = "oauth" THEN ResolveReference(BaseURL, oauthRelTokenURL) ELSE NoTokenURL)
    /\ NoGoroutines
    /\ NoCodec

(***************************************************************************)
(* Exported calls.  A call runs its accessor, checks its arguments and     *)
(* builds the request in one step; when a request was built it is on the   *)
(* transport (pc = "sent") until the transport answers, and the rest of    *)
(* the call, the response normalizer and what the method does with its     *)
(* result, is the second step.  A returned call keeps its request, answer  *)
(* and results in view until the caller lets go of them (Discard); the     *)
(* next call starts from there.                                            *)
(***************************************************************************)
Op(name, acl, supplied, etag) ==
    [name |-> name, acl |-> acl, supplied |-> supplied, etag |-> etag, ctx |-> Background]

\* The accessor's effect on the client (tsclient: init under initOnce).
Accessed(c) ==
    /\ APIKey' = c.APIKey
    /\ UserAgent' = c.UserAgent
    /\ HTTP' = c.HTTP
    /\ initDone' = (initDone \/ pkg = "tsclient")
    /\ UNCHANGED <<pkg, client>>
    /\ UNCHANGED <<urlVars, onceVars, codecVars, timeVars>>

\* The call returns e before any request is issued.
ReturnEarly(o, c, e) ==
    /\ Accessed(c)
    /\ op' = o
    /\ req' = NoRequest
    /\ res' = NoResponse
    /\ err' = e
    /\ out' = NoDest
    /\ pc' = "returned"
    /\ transport' = <<>>

\* The call hands the built request to the transport; d is its destination.
Send(o, c, b, d) ==
    IF b.err # Nil THEN ReturnEarly(o, c, b.err)
    ELSE /\ Accessed(c)
         /\ op' = o
         /\ req' = b.req
         /\ res' = NoResponse
         /\ err' = Nil
         /\ out' = d
         /\ pc' = "sent"
         /\ transport' = <<>>

\* fmt.Errorf("expected ACL content as a string or as ACL struct; got %T", v)
UnexpectedACLType(v) ==
    MkError("*errors.errorString", "", 0,
            "expected ACL content as a string or as ACL struct; got " \o
            (IF v.type = "nil" THEN "<nil>" ELSE IF v.type = "[]byte" THEN "[]uint8" ELSE v.type))

\* fmt.Errorf("ACL validation failed: %s; %v", response.Message, response.Data)
ValidationFailed(message) ==
    MkError("*errors.errorString", "", 0, "ACL validation failed: " \o message \o "; []")

\* Set / Validate leaving the default content type for every policy value.
PolicyParams_noOverride(rof, acl) == requestBody(rof, acl)

\* The request options Set and Validate derive from the kind of policy value.
PolicyParams(rof, acl) ==
    IF acl.type = "string" THEN requestContentType(requestBody(rof, acl), hujsonContentType)
    ELSE requestBody(rof, acl)

\* tsclient: func (c *Client) UseOAuth(clientID, clientSecret, scopes)
\* c.BaseURL.ResolveReference on a nil BaseURL panics: the process ends.
UseOAuth ==
    /\ pkg = "tsclient"
    /\ pc \notin {"sent", "panicked"}
    /\ IF BaseURL = NilBaseURL
       THEN /\ pc' = "panicked"
            /\ UNCHANGED <<HTTP, TokenURL>>
       ELSE /\ TokenURL' = ResolveReference(BaseURL, oauthRelTokenURL)
            /\ HTTP' = "oauth"
            /\ pc' = pc
    /\ UNCHANGED <<pkg, client, APIKey, UserAgent, initDone, op, req, res, err, out, transport>>
    /\ UNCHANGED <<BaseURL, Tailnet, pathElements, url>>
    /\ UNCHANGED <<onceVars, codecVars, timeVars>>

\* Set without the default case of its type switch.
Set_anyType(acl, etag) ==
    /\ pkg = "tsclient"
    /\ pc = "idle"
    /\ LET c == Receiver
           o == Op("Set", acl, etag # <<>>, etag)
           headers == IF etag # <<>> THEN HeaderSet(EmptyHeader, "If-Match", SprintfQ(etag)) ELSE EmptyHeader
           b == buildRequest(Background, c, "POST", <<"acl">>, PolicyParams(requestHeaders(DefaultParams, headers), acl))
       IN Send(o, c, b, NoDest)

\* tsclient: c.PolicyFile().Set(ctx, acl, etag)
Set(acl, etag) ==
    /\ pkg = "tsclient"
    /\ pc = "idle"
    /\ LET c == Receiver
           o == Op("Set", acl, etag # <<>>, etag)
           headers == IF etag # <<>> THEN HeaderSet(EmptyHeader, "If-Match", SprintfQ(etag)) ELSE EmptyHeader
           b == buildRequest(Background, c, "POST", <<"acl">>, PolicyParams(requestHeaders(DefaultParams, headers), acl))
       IN IF acl.type \notin {"ACL", "string"}
          THEN ReturnEarly(o, c, UnexpectedACLType(acl))
          ELSE Send(o, c, b, NoDest)

\* tsclient: c.PolicyFile().Validate(ctx, acl)
Validate(acl) ==
    /\ pkg = "tsclient"
    /\ pc = "idle"
    /\ LET c == Receiver
           o == Op("Validate", acl, FALSE, <<>>)
           b == buildRequest(Background, c, "POST", <<"acl", "validate">>, PolicyParams(DefaultParams, acl))
       IN IF acl.type \notin {"ACL", "string"}
          THEN ReturnEarly(o, c, UnexpectedACLType(acl))
          ELSE Send(o, c, b, Dest("APIError"))

\* tsclient: c.PolicyFile().Raw(ctx)
Raw ==
    /\ pkg = "tsclient"
    /\ pc = "idle"
    /\ Send(Op("Raw", NilIface, FALSE, <<>>), Receiver,
            buildRequest(Background, Receiver, "GET", <<"acl">>, requestContentType(DefaultParams, hujsonContentType)),
            Dest("bytes"))

\* tsclient: c.Keys().List(ctx)
List ==
    /\ pkg = "tsclient"
    /\ pc = "idle"
    /\ Send(Op("List", NilIface, FALSE, <<>>), Receiver,
            buildRequest(Background, Receiver, "GET", <<"keys">>, DefaultParams), Dest("map"))

\* tsclient: c.Keys().Delete(ctx, id)
Delete ==
    /\ pkg = "tsclient"
    /\ pc = "idle"
    /\ Send(Op("Delete", NilIface, FALSE, <<>>), Receiver,
            buildRequest(Background, Receiver, "DELETE", <<"keys", "k1">>, DefaultParams), NoDest)

\* tsclient: c.DNS().SetSearchPaths(ctx, searchPaths)
SetSearchPaths(ctx, searchPaths) ==
    /\ pkg = "tsclient"
    /\ pc = "idle"
    /\ LET body == SearchPathsBody(searchPaths) IN
       Send([Op("SetSearchPaths", body, FALSE, <<>>) EXCEPT !.ctx = ctx], Receiver,
            buildRequest(ctx, Receiver, "POST", <<"dns", "searchpaths">>, requestBody(DefaultParams, body)),
            NoDest)

\* tsclient: c.DNS().SetPreferences(ctx, preferences); a buildRequest error
\* makes it `return nil`
SetPreferences(ctx, preferences) ==
    /\ pkg = "tsclient"
    /\ pc = "idle"
    /\ LET c == Receiver
           o == [Op("SetPreferences", preferences, FALSE, <<>>) EXCEPT !.ctx = ctx]
           b == buildRequest(ctx, c, "POST", <<"dns", "preferences">>, requestBody(DefaultParams, preferences))
       IN IF b.err # Nil
          THEN ReturnEarly(o, c, Nil)
          ELSE Send(o, c, b, NoDest)

\* package tailscale: WithETag(etag) applied to setACLParams.headers
WithETag(headers, etag) == HeaderSet(headers, "If-Match", SprintfQ(etag))

\* package tailscale: client.PolicyFile().SetACL(ctx, acl, opts...), with no
\* option (supplied = FALSE) or with WithETag(etag)
SetACL(acl, supplied, etag) ==
    /\ pkg = "tailscale"
    /\ client = "ok"
    /\ pc = "idle"
    /\ supplied \/ etag = <<>>
    /\ LET c == Receiver
           o == Op("SetACL", acl, supplied, etag)
           headers == IF supplied THEN WithETag(EmptyHeader, etag) ELSE EmptyHeader
           b == tailscale_buildRequest(c, "POST", <<"acl">>, PolicyParams(requestHeaders(DefaultParams, headers), acl))
       IN IF acl.type \notin {"ACL", "string"}
          THEN ReturnEarly(o, c, UnexpectedACLType(acl))
          ELSE Send(o, c, b, NoDest)

\* package tailscale: client.PolicyFile().ValidateACL(ctx, acl)
ValidateACL(acl) ==
    /\ pkg = "tailscale"
    /\ client = "ok"
    /\ pc = "idle"
    /\ LET c == Receiver
           o == Op("ValidateACL", acl, FALSE, <<>>)
           b == tailscale_buildRequest(c, "POST", <<"acl", "validate">>, PolicyParams(DefaultParams, acl))
       IN IF acl.type \notin {"ACL", "string"}
          THEN ReturnEarly(o, c, UnexpectedACLType(acl))
          ELSE Send(o, c, b, Dest("APIError"))

\* package tailscale: client.PolicyFile().RawACL(ctx)
RawACL ==
    /\ pkg = "tailscale"
    /\ client = "ok"
    /\ pc = "idle"
    /\ Send(Op("RawACL", NilIface, FALSE, <<>>), Receiver,
            tailscale_buildRequest(Receiver, "GET", <<"acl">>, requestContentType(DefaultParams, hujsonContentType)),
            Dest("bytes"))

\* package tailscale: client.Keys().Get(ctx, id)
Get ==
    /\ pkg = "tailscale"
    /\ client = "ok"
    /\ pc = "idle"
    /\ Send(Op("Get", NilIface, FALSE, <<>>), Receiver,
            tailscale_buildRequest(Receiver, "GET", <<"keys", "k1">>, DefaultParams), Dest("Key"))

\* earliest package tailscale: client.SetACL(ctx, acl, opts...)
flat_SetACL(acl, supplied, etag) ==
    /\ pkg = "flat"
    /\ client = "ok"
    /\ pc = "idle"
    /\ acl.type = "ACL"
    /\ supplied \/ etag = <<>>
    /\ LET headers == IF supplied THEN WithETag(EmptyHeader, etag) ELSE EmptyHeader
       IN Send(Op("Client.SetACL", acl, supplied, etag), Receiver,
               flat_buildRequest(Receiver, "POST", <<"acl">>, headers, acl), NoDest)

\* earliest package tailscale: client.ValidateACL(ctx, acl)
flat_ValidateACL(acl) ==
    /\ pkg = "flat"
    /\ client = "ok"
    /\ pc = "idle"
    /\ acl.type = "ACL"
    /\ Send(Op("Client.ValidateACL", acl, FALSE, <<>>), Receiver,
            flat_buildRequest(Receiver, "POST", <<"acl", "validate">>, EmptyHeader, acl), NoDest)

\* earliest package tailscale: client.GetKey(ctx, id)
flat_GetKey ==
    /\ pkg = "flat"
    /\ client = "ok"
    /\ pc = "idle"
    /\ Send(Op("Client.GetKey", NilIface, FALSE, <<>>), Receiver,
            flat_buildRequest(Receiver, "GET", <<"keys", "k1">>, EmptyHeader, NilIface), Dest("Key"))

\* The response normalizer of the client's package.
Normalize(r, o) ==
    CASE pkg = "tsclient"  -> do(r, o)
      [] pkg = "tailscale" -> performRequest(r, o)
      [] OTHER             -> flat_performRequest(r, o)

\* Validate trusting the HTTP status alone.
ValidateResult_statusOnly(d) == d.err

\* Validate / ValidateACL after the normalizer: a decoded message is a failure.
ValidateResult(d) ==
    IF d.err # Nil THEN d.err
    ELSE IF d.out.Message # "" THEN ValidationFailed(d.out.Message)
    ELSE Nil

\* The call handing its request to the transport again after a transport
\* error.
Complete_retry(r) ==
    /\ pc = "sent"
    /\ op.name \notin {"Validate", "ValidateACL"}
    /\ transport' = Append(transport, HTTP)
    /\ IF r.kind = "transportError" /\ transport = <<>>
       THEN UNCHANGED <<res, err, out, pc>>
       ELSE LET d == Normalize(r, out) IN
            /\ res' = r
            /\ err' = d.err
            /\ out' = d.out
            /\ pc' = "returned"
    /\ UNCHANGED <<pkg, client, APIKey, UserAgent, HTTP, initDone, op, req>>
    /\ UNCHANGED <<urlVars, onceVars, codecVars, timeVars>>

\* res, err := c.HTTP.Do(req): the transport answers and the call returns
\* what the normalizer returns.
Complete(r) ==
    /\ pc = "sent"
    /\ op.name \notin {"Validate", "ValidateACL"}
    /\ transport' = Append(transport, HTTP)
    /\ LET d == Normalize(r, out) IN
       /\ res' = r
       /\ err' = d.err
       /\ out' = d.out
    /\ pc' = "returned"
    /\ UNCHANGED <<pkg, client, APIKey, UserAgent, HTTP, initDone, op, req>>
    /\ UNCHANGED <<urlVars, onceVars, codecVars, timeVars>>

\* The caller is done with what the call returned: the request, the answer,
\* the error and the destination go out of scope; the Client keeps its fields.
Discard ==
    /\ pc = "returned"
    /\ op' = NoOp
    /\ req' = NoRequest
    /\ res' = NoResponse
    /\ err' = Nil
    /\ out' = NoDest
    /\ pc' = "idle"
    /\ transport' = <<>>
    /\ UNCHANGED <<pkg, client, APIKey, UserAgent, HTTP, initDone>>
    /\ UNCHANGED <<urlVars, onceVars, codecVars, timeVars>>

\* The transport answers a Validate / ValidateACL call.
ValidateComplete(r) ==
    /\ pc = "sent"
    /\ op.name \in {"Validate", "ValidateACL"}
    /\ transport' = Append(transport, HTTP)
    /\ LET d == Normalize(r, out) IN
       /\ res' = r
       /\ err' = ValidateResult(d)
       /\ out' = d.out
    /\ pc' = "returned"
    /\ UNCHANGED <<pkg, client, APIKey, UserAgent, HTTP, initDone, op, req>>
    /\ UNCHANGED <<urlVars, onceVars, codecVars, timeVars>>

Next ==
    \/ UseOAuth
    \/ \E acl \in PolicyArgs, etag \in Etags : Set(acl, etag)
    \/ \E acl \in PolicyArgs : Validate(acl)
    \/ Raw
    \/ List
    \/ Delete
    \/ \E ctx \in Contexts, searchPaths \in SearchPathLists : SetSearchPaths(ctx, searchPaths)
    \/ \E ctx \in Contexts, m \in BOOLEAN : SetPreferences(ctx, DNSPreferences(m))
    \/ \E acl \in PolicyArgs, supplied \in BOOLEAN, etag \in Etags : SetACL(acl, supplied, etag)
    \/ \E acl \in PolicyArgs : ValidateACL(acl)
    \/ RawACL
    \/ Get
    \/ \E acl \in PolicyArgs, supplied \in BOOLEAN, etag \in Etags : flat_SetACL(acl, supplied, etag)
    \/ \E acl \in PolicyArgs : flat_ValidateACL(acl)
    \/ flat_GetKey
    \/ \E r \in Responses : Complete(r)
    \/ \E r \in Responses : ValidateComplete(r)
    \/ Discard

Spec == Init /\ [][Next]_vars

(***************************************************************************)
(* The URL builders on their own: a client with some base URL and tailnet, *)
(* and one call of buildURL or buildTailnetURL with some path elements.    *)
(***************************************************************************)
\* A tsclient Client on which no API call is made.
NoCalls ==
    /\ pkg = "tsclient"
    /\ client = "ok"
    /\ APIKey = ""
    /\ UserAgent = ""
    /\ HTTP = "nil"
    /\ initDone = FALSE
    /\ op = NoOp
    /\ req = NoRequest
    /\ res = NoResponse
    /\ err = Nil
    /\ out = NoDest
    /\ pc = "idle"
    /\ transport = <<>>

InitURL ==
    /\ NoCalls
    /\ NoGoroutines
    /\ NoCodec
    /\ BaseURL \in BaseURLs
    /\ Tailnet \in PathElems
    /\ pathElements = <<>>
    /\ url = NoURL
    /\ TokenURL = NoTokenURL

\* c.buildURL(elems...)
BuildURL(elems) ==
    /\ ~url.built
    /\ pathElements' = elems
    /\ url' = buildURL(BaseURL, elems)
    /\ UNCHANGED <<BaseURL, Tailnet, TokenURL>>
    /\ UNCHANGED <<callVars, onceVars, codecVars, timeVars>>

\* c.buildTailnetURL(elems...)
BuildTailnetURL(elems) ==
    /\ ~url.built
    /\ pathElements' = <<<<"tailnet">>, Tailnet>> \o elems
    /\ url' = buildTailnetURL(BaseURL, Tailnet, elems)
    /\ UNCHANGED <<BaseURL, Tailnet, TokenURL>>
    /\ UNCHANGED <<callVars, onceVars, codecVars, timeVars>>

\* The call of a facade method that takes a resource ID.
IDOp(name, id) == [name |-> name, id |-> id]

\* tsclient: c.Keys().Get(ctx, id), up to the URL it builds
KeysGet(id) ==
    /\ ~url.built
    /\ op' = IDOp("KeysResource.Get", id)
    /\ pathElements' = <<<<"tailnet">>, Tailnet, <<"keys">>, id>>
    /\ url' = buildTailnetURL(BaseURL, Tailnet, <<<<"keys">>, id>>)
    /\ UNCHANGED <<pkg, client, APIKey, UserAgent, HTTP, initDone, req, res, err, out, pc, transport>>
    /\ UNCHANGED <<BaseURL, Tailnet, TokenURL>>
    /\ UNCHANGED <<onceVars, codecVars, timeVars>>

\* tsclient: c.Devices().Get(ctx, deviceID), up to the URL it builds
DevicesGet(deviceID) ==
    /\ ~url.built
    /\ op' = IDOp("DevicesResource.Get", deviceID)
    /\ pathElements' = <<<<"device">>, deviceID>>
    /\ url' = buildURL(BaseURL, <<<<"device">>, deviceID>>)
    /\ UNCHANGED <<pkg, client, APIKey, UserAgent, HTTP, initDone, req, res, err, out, pc, transport>>
    /\ UNCHANGED <<BaseURL, Tailnet, TokenURL>>
    /\ UNCHANGED <<onceVars, codecVars, timeVars>>

\* package tailscale, on a client with the same tailnet: Keys().Get(ctx, id),
\* up to the URL buildRequest parses
tailscale_KeysGet(id) ==
    /\ ~url.built
    /\ op' = IDOp("tailscale.KeysResource.Get", id)
    /\ pathElements' = <<Tailnet, id>>
    /\ url' = ParseRef(KeyURI(Tailnet, id))
    /\ UNCHANGED <<pkg, client, APIKey, UserAgent, HTTP, initDone, req, res, err, out, pc, transport>>
    /\ UNCHANGED <<BaseURL, Tailnet, TokenURL>>
    /\ UNCHANGED <<onceVars, codecVars, timeVars>>

NextURL ==
    \/ \E id \in PathElems : KeysGet(id)
    \/ \E deviceID \in PathElems : DevicesGet(deviceID)
    \/ \E id \in PathElems : tailscale_KeysGet(id)
    \/ \E elems \in PathElemLists : BuildURL(elems)
    \/ \E elems \in PathElemLists : BuildTailnetURL(elems)

SpecURL == InitURL /\ [][NextURL]_vars

(***************************************************************************)
(* NewClient on its own: one call with some API key and some options.      *)
(***************************************************************************)
InitNewClient ==
    /\ pkg \in {"tailscale", "flat"}
    /\ client = "nil"
    /\ APIKey = ""
    /\ UserAgent = ""
    /\ HTTP = "nil"
    /\ initDone = FALSE
    /\ op = NoOp
    /\ req = NoRequest
    /\ res = NoResponse
    /\ err = Nil
    /\ out = NoDest
    /\ pc = "idle"
    /\ transport = <<>>
    /\ BaseURL = defaultBaseURL
    /\ Tailnet = <<"a">>
    /\ pathElements = <<>>
    /\ url = NoURL
    /\ TokenURL = NoTokenURL
    /\ NoGoroutines
    /\ NoCodec

\* client, err := NewClient(apiKey, tailnet, options...)
Construct(apiKey, options) ==
    /\ pc = "idle"
    /\ transport = <<>>
    /\ LET n == NewClient(pkg, apiKey, options) IN
       /\ client' = IF n.err = Nil THEN "ok" ELSE "nil"
       /\ APIKey' = n.c.APIKey
       /\ UserAgent' = n.c.UserAgent
       /\ HTTP' = n.c.HTTP
       /\ BaseURL' = n.c.BaseURL
       /\ TokenURL' = n.c.TokenURL
       /\ err' = n.err
    /\ op' = [name |-> "NewClient", apiKey |-> apiKey, options |-> options]
    /\ pc' = "returned"
    /\ UNCHANGED <<pkg, initDone, req, res, out, transport, Tailnet, pathElements, url>>
    /\ UNCHANGED <<onceVars, codecVars, timeVars>>

NextNewClient == \E apiKey \in Keys, options \in ClientOptionLists(pkg) : Construct(apiKey, options)

SpecNewClient == InitNewClient /\ [][NextNewClient]_vars

(***************************************************************************)
(* buildRequest on its own: a client with some key and user agent, and one *)
(* call with some caller headers and with or without a body.               *)
(***************************************************************************)
\* The header maps a caller passes with requestHeaders: none, or one header.
CallerHeaderNames == {"User-Agent", "user-agent", "Accept", "Content-Type", "Authorization", "If-Match"}

CallerHeaders == {EmptyHeader} \cup {[x \in {k} |-> "caller"] : k \in CallerHeaderNames}

InitHeaders ==
    /\ pkg \in {"tsclient", "tailscale"}
    /\ client = "ok"
    /\ APIKey \in Keys
    /\ UserAgent \in UserAgents
    /\ HTTP = "default"
    /\ initDone = (pkg = "tsclient")
    /\ op = NoOp
    /\ req = NoRequest
    /\ res = NoResponse
    /\ err = Nil
    /\ out = NoDest
    /\ pc = "idle"
    /\ transport = <<>>
    /\ BaseURL = defaultBaseURL
    /\ Tailnet = <<"a">>
    /\ pathElements = <<>>
    /\ url = NoURL
    /\ TokenURL = NoTokenURL
    /\ NoGoroutines
    /\ NoCodec

\* req, err := c.buildRequest(ctx, method, uri, requestHeaders(headers), requestBody(body))
BuildRequest(headers, body) ==
    /\ req = NoRequest
    /\ LET c == Config(APIKey, UserAgent, HTTP, BaseURL)
           rof == requestBody(requestHeaders(DefaultParams, headers), body)
           b == IF pkg = "tsclient" THEN buildRequest(Background, c, "POST", <<"keys">>, rof)
                ELSE tailscale_buildRequest(c, "POST", <<"keys">>, rof)
       IN /\ req' = b.req
          /\ err' = b.err
    /\ op' = [name |-> "buildRequest", headers |-> headers, body |-> body]
    /\ UNCHANGED <<pkg, client, APIKey, UserAgent, HTTP, initDone, res, out, pc, transport>>
    /\ UNCHANGED <<urlVars, onceVars, codecVars, timeVars>>

NextHeaders == \E headers \in CallerHeaders, body \in {NilIface, Iface("string", "{}", ZeroACL)} : BuildRequest(headers, body)

SpecHeaders == InitHeaders /\ [][NextHeaders]_vars

(***************************************************************************)
(* OAuth on a tsclient Client: the Client literal leaves BaseURL unset or  *)
(* sets it, UseOAuth and assignments to the BaseURL field come in any      *)
(* order, and Devices().List is the API call.                              *)
(***************************************************************************)
InitOAuth ==
    /\ pkg = "tsclient"
    /\ client = "ok"
    /\ APIKey \in Keys
    /\ UserAgent = ""
    /\ HTTP \in {"nil", "custom"}
    /\ initDone = FALSE
    /\ op = NoOp
    /\ req = NoRequest
    /\ res = NoResponse
    /\ err = Nil
    /\ out = NoDest
    /\ pc = "idle"
    /\ transport = <<>>
    /\ BaseURL \in {NilBaseURL} \cup BaseURLs
    /\ Tailnet = <<"a">>
    /\ pathElements = <<>>
    /\ url = NoURL
    /\ TokenURL = NoTokenURL
    /\ NoGoroutines
    /\ NoCodec

\* c.BaseURL = b, an assignment to the exported field between calls
SetBaseURL(b) ==
    /\ pc \notin {"sent", "panicked"}
    /\ BaseURL # b
    /\ BaseURL' = b
    /\ UNCHANGED <<callVars, Tailnet, pathElements, url, TokenURL>>
    /\ UNCHANGED <<onceVars, codecVars, timeVars>>

\* c.Devices().List(ctx), up to handing the request to c.HTTP
DevicesList ==
    /\ pc \notin {"sent", "panicked"}
    /\ LET c == init
           b == buildRequest(Background, c, "GET", <<"devices">>, DefaultParams)
       IN /\ APIKey' = c.APIKey
          /\ UserAgent' = c.UserAgent
          /\ HTTP' = c.HTTP
          /\ BaseURL' = c.BaseURL
          /\ initDone' = TRUE
          /\ pathElements' = <<<<"tailnet">>, Tailnet, <<"devices">>>>
          /\ url' = buildTailnetURL(c.BaseURL, Tailnet, <<<<"devices">>>>)
          /\ op' = Op("Devices.List", NilIface, FALSE, <<>>)
          /\ req' = b.req
    /\ res' = NoResponse
    /\ err' = Nil
    /\ out' = Dest("map")
    /\ pc' = "sent"
    /\ transport' = <<>>
    /\ UNCHANGED <<pkg, client, Tailnet, TokenURL>>
    /\ UNCHANGED <<onceVars, codecVars, timeVars>>

NextOAuth ==
    \/ UseOAuth
    \/ \E b \in BaseURLs : SetBaseURL(b)
    \/ DevicesList
    \/ \E r \in Responses : Complete(r)

SpecOAuth == InitOAuth /\ [][NextOAuth]_vars

(***************************************************************************)
(* Concurrent resource accessors on one tsclient Client.  Each goroutine   *)
(* calls accessors; an accessor is c.init() followed by the read of the    *)
(* facade field.  c.init() is initOnce.Do(body), followed here step by     *)
(* step: the fast-path load of done, the mutex, the second load, the body  *)
(* (defaults, then one facade field after the other), the store to done    *)
(* and the unlock.                                                         *)
(***************************************************************************)
InitOnce ==
    /\ pkg = "tsclient"
    /\ client = "ok"
    /\ APIKey = "tskey-api-k1"
    /\ UserAgent \in UserAgents
    /\ HTTP \in {"nil", "custom"}
    /\ initDone = FALSE
    /\ op = NoOp
    /\ req = NoRequest
    /\ res = NoResponse
    /\ err = Nil
    /\ out = NoDest
    /\ pc = "idle"
    /\ transport = <<>>
    /\ BaseURL = defaultBaseURL
    /\ Tailnet = <<"a">>
    /\ pathElements = <<>>
    /\ url = NoURL
    /\ TokenURL = NoTokenURL
    /\ NoGoroutines
    /\ NoCodec

At(g, where) == goroutines[g].pc = where

Goto(g, where) == goroutines' = [goroutines EXCEPT ![g].pc = where]

Untouched == UNCHANGED <<pkg, client, APIKey, op, req, res, err, out, pc, transport, urlVars, codecVars, timeVars>>

\* goroutine g calls c.Devices() or c.Keys()
CallAccessor(g, a) ==
    /\ At(g, "idle")
    /\ Len(goroutines[g].returned) < MaxCalls
    /\ goroutines' = [goroutines EXCEPT ![g].pc = "Do", ![g].accessor = a]
    /\ UNCHANGED <<UserAgent, HTTP, initDone, onceM, facades, initRuns>>
    /\ Untouched

\* sync.Once.Do: if o.done.Load() == 0 { o.doSlow(f) }
OnceDo(g) ==
    /\ At(g, "Do")
    /\ Goto(g, IF initDone THEN "return" ELSE "Lock")
    /\ UNCHANGED <<UserAgent, HTTP, initDone, onceM, facades, initRuns>>
    /\ Untouched

\* doSlow entered without taking the mutex.
OnceLock_noMutex(g) ==
    /\ At(g, "Lock")
    /\ onceM' = onceM
    /\ Goto(g, "doSlow")
    /\ UNCHANGED <<UserAgent, HTTP, initDone, facades, initRuns>>
    /\ Untouched

\* doSlow: o.m.Lock()
OnceLock(g) ==
    /\ At(g, "Lock")
    /\ onceM = 0
    /\ onceM' = g
    /\ Goto(g, "doSlow")
    /\ UNCHANGED <<UserAgent, HTTP, initDone, facades, initRuns>>
    /\ Untouched

\* doSlow running f without loading done again.
OnceDoSlow_noRecheck(g) ==
    /\ At(g, "doSlow")
    /\ Goto(g, "defaults")
    /\ UNCHANGED <<UserAgent, HTTP, initDone, onceM, facades, initRuns>>
    /\ Untouched

\* doSlow: if o.done.Load() == 0 { defer o.done.Store(1); f() }
OnceDoSlow(g) ==
    /\ At(g, "doSlow")
    /\ Goto(g, IF initDone THEN "Unlock" ELSE "defaults")
    /\ UNCHANGED <<UserAgent, HTTP, initDone, onceM, facades, initRuns>>
    /\ Untouched

\* the body of init: the defaults of BaseURL, UserAgent and HTTP
InitDefaults(g) ==
    /\ At(g, "defaults")
    /\ initRuns' = initRuns + 1
    /\ UserAgent' = IF UserAgent = "" THEN defaultUserAgent ELSE UserAgent
    /\ HTTP' = IF HTTP = "nil" THEN "default" ELSE HTTP
    /\ Goto(g, "devices")
    /\ UNCHANGED <<initDone, onceM, facades>>
    /\ Untouched

\* the body of init: c.devices = &DevicesResource{c}
InitDevices(g) ==
    /\ At(g, "devices")
    /\ facades' = [facades EXCEPT !["Devices"] = Facade("c", initRuns)]
    /\ Goto(g, "keys")
    /\ UNCHANGED <<UserAgent, HTTP, initDone, onceM, initRuns>>
    /\ Untouched

\* the body of init: c.keys = &KeysResource{c}
InitKeys(g) ==
    /\ At(g, "keys")
    /\ facades' = [facades EXCEPT !["Keys"] = Facade("c", initRuns)]
    /\ Goto(g, "Store")
    /\ UNCHANGED <<UserAgent, HTTP, initDone, onceM, initRuns>>
    /\ Untouched

\* the deferred o.done.Store(1)
OnceStore(g) ==
    /\ At(g, "Store")
    /\ initDone' = TRUE
    /\ Goto(g, "Unlock")
    /\ UNCHANGED <<UserAgent, HTTP, onceM, facades, initRuns>>
    /\ Untouched

\* the deferred o.m.Unlock()
OnceUnlock(g) ==
    /\ At(g, "Unlock")
    /\ onceM' = IF onceM = g THEN 0 ELSE onceM
    /\ Goto(g, "return")
    /\ UNCHANGED <<UserAgent, HTTP, initDone, facades, initRuns>>
    /\ Untouched

\* return c.devices / return c.keys
AccessorReturn(g) ==
    /\ At(g, "return")
    /\ goroutines' = [goroutines EXCEPT
            ![g].pc = "call",
            ![g].returned = Append(@, [accessor |-> goroutines[g].accessor,
                                       facade |-> facades[goroutines[g].accessor]])]
    /\ UNCHANGED <<UserAgent, HTTP, initDone, onceM, facades, initRuns>>
    /\ Untouched

\* the List method of the facade just returned: buildRequest reads the
\* Client's fields, do hands the request to c.HTTP
FacadeList(g) ==
    /\ At(g, "call")
    /\ LET c == Config(APIKey, UserAgent, HTTP, BaseURL)
           path == IF goroutines[g].accessor = "Devices" THEN <<"devices">> ELSE <<"keys">>
       IN goroutines' = [goroutines EXCEPT
            ![g].pc = "idle",
            ![g].req = buildRequest(Background, c, "GET", path, DefaultParams).req]
    /\ UNCHANGED <<UserAgent, HTTP, initDone, onceM, facades, initRuns>>
    /\ Untouched

NextOnce ==
    \E g \in Goroutines :
        \/ \E a \in Accessors : CallAccessor(g, a)
        \/ OnceDo(g)
        \/ OnceLock(g)
        \/ OnceDoSlow(g)
        \/ InitDefaults(g)
        \/ InitDevices(g)
        \/ InitKeys(g)
        \/ OnceStore(g)
        \/ OnceUnlock(g)
        \/ AccessorReturn(g)
        \/ FacadeList(g)

SpecOnce == InitOnce /\ [][NextOnce]_vars

(***************************************************************************)
(* The ACL codec on its own: some ACL value is encoded with json.Marshal   *)
(* and the result decoded into a fresh ACL, as the policy-file calls and   *)
(* their tests do.                                                         *)
(***************************************************************************)
InitACL ==
    /\ NoCalls
    /\ BaseURL = defaultBaseURL
    /\ Tailnet = <<"a">>
    /\ pathElements = <<>>
    /\ url = NoURL
    /\ TokenURL = NoTokenURL
    /\ NoGoroutines
    /\ NoDecodes
    /\ aclValue \in ACLStructs
    /\ aclJSON = <<>>
    /\ aclDecoded = <<>>

\* data, err := json.Marshal(acl)
MarshalValue ==
    /\ aclJSON = <<>>
    /\ aclJSON' = <<MarshalACL(aclValue)>>
    /\ UNCHANGED <<aclValue, aclDecoded>>
    /\ UNCHANGED <<callVars, urlVars, onceVars, timeVars>>

\* var actual ACL; json.Unmarshal(data, &actual)
UnmarshalValue ==
    /\ aclJSON # <<>>
    /\ aclDecoded = <<>>
    /\ aclDecoded' = <<UnmarshalACL(aclJSON[1], NewACL)>>
    /\ UNCHANGED <<aclValue, aclJSON>>
    /\ UNCHANGED <<callVars, urlVars, onceVars, timeVars>>

NextACL == MarshalValue \/ UnmarshalValue

SpecACL == InitACL /\ [][NextACL]_vars

(***************************************************************************)
(* Time on its own: one Time, starting as Time{}, into which JSON texts    *)
(* are decoded one after the other, as json.Unmarshal does when the same   *)
(* Device is decoded into again.                                           *)
(***************************************************************************)
InitTime ==
    /\ NoCalls
    /\ BaseURL = defaultBaseURL
    /\ Tailnet = <<"a">>
    /\ pathElements = <<>>
    /\ url = NoURL
    /\ TokenURL = NoTokenURL
    /\ NoGoroutines
    /\ NoCodec

\* err := t.UnmarshalJSON(data)
DecodeTime(data) ==
    /\ Len(timeData) < MaxDecodes
    /\ LET u == UnmarshalJSON(timeValue, data) IN
       /\ timeValue' = u.t
       /\ timeErr' = u.err
    /\ timeData' = Append(timeData, data)
    /\ UNCHANGED <<callVars, urlVars, onceVars, codecVars>>

NextTime == \E data \in TimeTexts : DecodeTime(data)

SpecTime == InitTime /\ [][NextTime]_vars

(***************************************************************************)
(* Properties                                                              *)
(***************************************************************************)
\* A request was built by the last call.
Built == pc \in {"sent", "returned"} /\ req # NoRequest

\* The last call returned after the transport delivered a response.
Answered == pc = "returned" /\ res.kind = "response"

Success(status) == status >= 200 /\ status < 300

\* The policy-file calls that take a policy value.
SetOps == {"Set", "SetACL", "Client.SetACL"}
FacadeValidateOps == {"Validate", "ValidateACL"}

\* C1: every response with a status outside 200-299 makes the call return a
\* non-nil error: the body decoded as APIError with that status or, when the
\* body does not decode as the error shape, the decode failure.
C1_NonSuccessIsError ==
    (Answered /\ ~Success(res.status)) =>
        LET u == Unmarshal(res.body, Dest("APIError")) IN
        /\ err # Nil
        /\ IF u.err = Nil
           THEN err.type = "APIError" /\ err.status = res.status /\ err.Message = u.out.Message
           ELSE err = u.err

\* C2: every APIError a call returns carries the status of the response
\* that produced it, so it never has status 0.
C2_APIErrorCarriesStatus ==
    (pc = "returned" /\ err.type = "APIError") =>
        /\ res.kind = "response"
        /\ err.status = res.status
        /\ err.status # 0

C2_Witness ==
    /\ pc = "returned"
    /\ err.type = "APIError"
    /\ res.status = 400
    /\ res.body = BodyNull

\* C3: IsNotFound holds of a call's error exactly when the call was answered
\* with status 404 and a body that decodes as the error shape.
C3_IsNotFoundExactly404 ==
    pc = "returned" =>
        (IsNotFound(err) <=>
            /\ res.kind = "response"
            /\ res.status = 404
            /\ Unmarshal(res.body, Dest("APIError")).err = Nil)

C3_Witness ==
    /\ pc = "returned"
    /\ op.name = "Get"
    /\ res.status = 404
    /\ res.body = BodyMessage
    /\ IsNotFound(err)

\* C4: Validate answered with a 2xx status and a body that decodes returns an
\* error containing the decoded message when that message is not empty, and
\* nil when it is empty.
C4_ValidateMessageIsFailure ==
    (Answered /\ op.name \in FacadeValidateOps /\ Success(res.status)) =>
        LET d == decodeSuccess(res.body, Dest("APIError")) IN
        d.err = Nil =>
            IF d.out.Message # ""
            THEN err # Nil /\ err.text = "ACL validation failed: " \o d.out.Message \o "; []"
            ELSE err = Nil

C4_Witness ==
    /\ Answered
    /\ op.name = "Validate"
    /\ res.status = 200
    /\ res.body = BodyMessage
    /\ err # Nil

\* C5: a request built by a client that is in OAuth2 mode carries no HTTP
\* Basic Authorization header, whatever API key is configured.
C5_OAuthNeverBasic ==
    [][(HTTP = "oauth" /\ pc' = "sent") => "Authorization" \notin DOMAIN req'.header]_vars

\* C6: a built request carries Basic authentication if and only if the
\* configured API key is not empty, and then with the key as username and an
\* empty password.
C6_BasicAuthIffKey ==
    Built =>
        LET a == BasicAuth(req.header) IN
        /\ ("Authorization" \in DOMAIN req.header) <=> (APIKey # "")
        /\ APIKey # "" => (a.ok /\ a.username = APIKey /\ a.password = "")

C6_Witness ==
    /\ Built
    /\ HTTP = "default"
    /\ APIKey = "tskey-api-k1"
    /\ BasicAuth(req.header).username = "tskey-api-k1"

\* The content type a call asks for: overridden for the raw policy file and
\* for a policy given as a string.
ExpectedContentType ==
    IF op.name \in {"Raw", "RawACL"} \/ op.acl.type = "string" THEN hujsonContentType ELSE defaultContentType

\* C7: a built request has exactly one of Accept and Content-Type: Accept when
\* the call supplied no body, Content-Type when it did, set to the call's
\* content type; a struct body with no override goes out as JSON with
\* Content-Type application/json.
C7_OneContentTypeHeader ==
    Built =>
        /\ IF op.acl.type = "nil"
           THEN /\ "Accept" \in DOMAIN req.header
                /\ "Content-Type" \notin DOMAIN req.header
                /\ req.header["Accept"] = ExpectedContentType
           ELSE /\ "Content-Type" \in DOMAIN req.header
                /\ "Accept" \notin DOMAIN req.header
                /\ req.header["Content-Type"] = ExpectedContentType
        /\ op.acl.type = "ACL" =>
                /\ req.header["Content-Type"] = "application/json"
                /\ req.body \in {Marshal(op.acl), MarshalIndent(op.acl)}

C7_Witness ==
    /\ Built
    /\ op.name = "Raw"
    /\ req.header["Accept"] = "application/hujson"

\* C8: a string body is sent as exactly its bytes and a []byte body as exactly
\* those bytes; a body of another type is JSON-marshalled.
C8_RawBodiesVerbatim ==
    /\ (Built /\ op.acl.type = "string") => req.body = op.acl.str
    /\ (Built /\ pkg = "tsclient" /\ op.acl.type = "ACL") => req.body = Marshal(op.acl)
    /\ \A v \in PolicyArgs :
          LET b == buildRequest(Background, Receiver, "POST", <<"acl">>, requestBody(DefaultParams, v)).req.body IN
          IF v.type \in {"string", "[]byte"} THEN b = v.str ELSE b = Marshal(v)

C8_Witness ==
    /\ Built
    /\ op.name = "Set"
    /\ op.acl.type = "string"
    /\ req.body = "not json"

\* C9: Set and Validate send Content-Type application/json for an ACL value
\* and Content-Type application/hujson for a string.
C9_PolicyContentType ==
    (Built /\ op.name \in {"Set", "Validate"}) =>
        /\ op.acl.type = "ACL" => HeaderGet(req.header, "Content-Type") = "application/json"
        /\ op.acl.type = "string" => HeaderGet(req.header, "Content-Type") = "application/hujson"

C9_Witness ==
    /\ Built
    /\ op.name = "Validate"
    /\ op.acl.type = "string"
    /\ HeaderGet(req.header, "Content-Type") = "application/hujson"

\* C10: setting the policy file sends If-Match if and only if an ETag was
\* supplied, and then its value is the ETag wrapped in double quotes.
C10_IfMatchIsQuotedETag ==
    (Built /\ op.name \in SetOps) =>
        /\ ("If-Match" \in DOMAIN req.header) <=> op.supplied
        /\ op.supplied => req.header["If-Match"] = "\"" \o Str(op.etag) \o "\""

\* The calls whose result is what the normalizer decodes into a typed
\* destination.
TypedOps == {"List", "Get", "Client.GetKey"}

\* C11: a raw policy-file read answered with a 2xx status returns no error
\* and hands back exactly the bytes of the response body, whether or not they
\* are JSON: comments and trailing commas are still there.
C11_RawBodyByteForByte ==
    (Answered /\ op.name \in {"Raw", "RawACL"} /\ Success(res.status)) =>
        /\ err = Nil
        /\ out.type = "bytes"
        /\ out.bytes = res.body

C11_Witness ==
    /\ Answered
    /\ op.name = "Raw"
    /\ res.status = 200
    /\ res.body = BodyHuJSON
    /\ out.bytes = BodyHuJSON
    /\ ~JSONValid(out.bytes)

C13_NoDestinationIsSuccess ==
    (Answered /\ out.type = "nil" /\ Success(res.status)) => err = Nil /\ out = NoDest

C13_Witness ==
    /\ Answered
    /\ op.name = "Delete"
    /\ res.status = 299
    /\ res.body = BodyEmpty
    /\ err = Nil

\* C14: the URL built from path elements is the base URL's path, then api
\* and v2, then exactly one segment per path element (tailnet and the
\* client's Tailnet first in the tailnet form), each segment being the
\* percent-escaped element.
C14_OneSegmentPerElement ==
    (url.built /\ op = NoOp) =>
        url.path = BaseURL \o <<"api", "v2">> \o [i \in 1..Len(pathElements) |-> PathEscape(pathElements[i])]

\* The packages whose calls go through resource facades.
FacadePackages == {"tsclient", "tailscale"}

\* C15: a call through a resource facade on a client whose user agent is
\* configured as the empty string sends no User-Agent header; on any other
\* client it sends the configured user agent.
C15_UserAgentPolicy ==
    [][(pkg \in FacadePackages /\ pc' = "sent") =>
            IF UserAgent = ""
            THEN "User-Agent" \notin DOMAIN req'.header
            ELSE HeaderGet(req'.header, "User-Agent") = UserAgent]_vars

\* The places in an option list of the options that return an error.
Failing(os) == {i \in 1..Len(os) : OptionError(os[i]) # Nil}

First(S) == CHOOSE i \in S : \A j \in S : i <= j

\* C16: NewClient returns an error and no client when it is given neither a
\* non-empty API key nor OAuth client credentials; it returns the error of
\* the first option that fails and applies nothing after it; every client it
\* does return has an HTTP handle.
C16_NewClientNeedsCredentials ==
    op.name = "NewClient" =>
        LET os == op.options IN
        /\ (client = "nil") <=> (err # Nil)
        /\ (op.apiKey = "" /\ \A i \in 1..Len(os) : os[i].name # "WithOAuthClientCredentials") =>
                (client = "nil" /\ err # Nil)
        /\ Failing(os) # {} =>
                /\ client = "nil"
                /\ err = OptionError(os[First(Failing(os))])
                /\ NewClient(pkg, op.apiKey, os) = NewClient(pkg, op.apiKey, SubSeq(os, 1, First(Failing(os))))
        /\ client = "ok" => HTTP # "nil"

C16_Witness ==
    /\ op.name = "NewClient"
    /\ op.apiKey = ""
    /\ Len(op.options) = 2
    /\ op.options[1].name = "WithUserAgent"
    /\ op.options[2] = Option("WithBaseURL", GoodURL)
    /\ client = "nil"
    /\ err = NoCredentials

\* Every facade some goroutine has got back from an accessor.
Returned == {goroutines[g].returned[i] : <<g, i>> \in {<<g, i>> \in Goroutines \X (1..MaxCalls) : i <= Len(goroutines[g].returned)}}

\* C17: however the accessor calls of several goroutines interleave, the
\* body of init is entered at most once, and exactly once when an accessor
\* has returned; every accessor returns a non-nil facade of this Client; and
\* all calls of the same accessor return the same facade.
C17_InitOnceIsRaceFree ==
    /\ initRuns <= 1
    /\ Returned # {} => initRuns = 1
    /\ \A r \in Returned : r.facade # NilFacade /\ r.facade.Client = "c"
    /\ \A r1, r2 \in Returned : r1.accessor = r2.accessor => r1.facade = r2.facade

C17_Witness ==
    /\ \A g \in Goroutines : Len(goroutines[g].returned) = MaxCalls
    /\ goroutines[1].returned[1].accessor = "Devices"
    /\ goroutines[2].returned[1].accessor = "Keys"
    /\ goroutines[2].returned[2].accessor = "Devices"
    /\ goroutines[1].returned[1].facade = goroutines[2].returned[2].facade
    /\ initRuns = 1

\* The value was encoded and the encoding decoded.
RoundTripped == aclJSON # <<>> /\ aclDecoded # <<>>

\* What `omitempty` does to a slice or a map: an empty one is not encoded,
\* so it comes back nil.
EmptyToNilSlice(x) == IF Len(x.elems) = 0 THEN NilSlice ELSE x
EmptyToNilMap(m) == IF MapLen(m) = 0 THEN NilMap ELSE m

EmptyToNil(a) ==
    [a EXCEPT !.ACLs = IF Len(@.elems) = 0 THEN NilSlice
                       ELSE Slice([i \in 1..Len(@.elems) |-> [@.elems[i] EXCEPT !.Ports = EmptyToNilSlice(@)]]),
              !.Groups = EmptyToNilMap(@),
              !.Hosts = EmptyToNilMap(@),
              !.TagOwners = EmptyToNilMap(@)]

\* C18 as stated: encoding any ACL value and decoding the result into a
\* fresh ACL yields a value equal to the original.
C18_RoundTripEqual ==
    RoundTripped => aclDecoded[1] = aclValue

\* C18, amended: the decoded ACL equals the original with every empty,
\* non-nil slice or map of an omitempty field replaced by nil; it equals the
\* original when there is none.  Maps have no key order.
C18_RoundTripUpToEmpty ==
    RoundTripped =>
        /\ aclDecoded[1] = EmptyToNil(aclValue)
        /\ EmptyToNil(aclValue) = aclValue => aclDecoded[1] = aclValue

C18_Witness ==
    /\ RoundTripped
    /\ aclValue.Groups = Map([k \in {"group:b", "group:a"} |-> Slice(<<k>>)])
    /\ aclValue.Hosts = Map(NoEntries)
    /\ aclValue.ACLs = Slice(<<ACLEntry("accept", Slice(<<"*:*">>))>>)
    /\ aclDecoded[1].Groups = aclValue.Groups
    /\ aclDecoded[1].Hosts = NilMap
    /\ aclDecoded[1].ACLs = aclValue.ACLs

\* C19: whatever the Time held before, decoding the empty JSON string into
\* it returns no error and leaves it equal to the zero timestamp.
C19_EmptyStringIsZeroTime ==
    (timeData # <<>> /\ timeData[Len(timeData)] = EmptyString) =>
        /\ timeErr = Nil
        /\ timeValue = ZeroTime

\* C20: a facade method whose request cannot be built returns a non-nil
\* error, the one buildRequest produced, and issues no HTTP request.
C20_BuildFailureIsReturned ==
    (pc = "returned" /\ op.name \in {"SetSearchPaths", "SetPreferences"} /\ op.ctx = NilContext) =>
        /\ err # Nil
        /\ err = NilContextError
        /\ req = NoRequest
        /\ res = NoResponse

\* The last call built a request.
Constructed == req # NoRequest

\* C21: a call invokes the HTTP transport at most once, exactly once when
\* its request was constructed and not at all otherwise, and a transport
\* error is returned as it is, with no second attempt.
C21_SingleRoundTrip ==
    /\ Len(transport) <= 1
    /\ pc = "sent" => transport = <<>>
    /\ pc = "returned" =>
          /\ Len(transport) = (IF Constructed THEN 1 ELSE 0)
          /\ res.kind = "transportError" => err = TransportError

C21_Witness ==
    /\ pc = "returned"
    /\ res.kind = "transportError"
    /\ err = TransportError
    /\ transport = <<HTTP>>

\* The URL of the collection a call with a resource ID addresses a member of.
CollectionPath ==
    CASE op.name = "KeysResource.Get"    -> buildTailnetURL(BaseURL, Tailnet, <<<<"keys">>>>).path
      [] op.name = "DevicesResource.Get" -> buildURL(BaseURL, <<<<"device">>>>).path
      [] OTHER                           -> ParseRef(KeysURI(Tailnet)).path

IDOps == {"KeysResource.Get", "DevicesResource.Get", "tailscale.KeysResource.Get"}

\* C22: the URL of a call that takes a resource ID is the URL of the
\* resource's collection followed by exactly one segment, the escaped ID,
\* whatever characters the (non-empty) ID contains.
C22_IDIsOneSegment ==
    (url.built /\ op.name \in IDOps /\ op.id # <<>>) =>
        url.path = CollectionPath \o <<PathEscape(op.id)>>

\* C23: the token endpoint of a client using OAuth is /api/v2/oauth/token
\* resolved against the base URL its API requests use, whatever the order
\* of the options (or of UseOAuth and the assignment of BaseURL).
C23_TokenURLFollowsBaseURL ==
    (client = "ok" /\ HTTP = "oauth") => TokenURL = ResolveReference(BaseURL, oauthRelTokenURL)

\* C24: once UseOAuth has set the HTTP handle, the handle stays the OAuth
\* one (initialization does not replace it) and every request handed to the
\* transport from then on goes to it.
C24_OAuthHandleIsKept ==
    [][(pkg = "tsclient" /\ HTTP = "oauth") =>
            /\ HTTP' = "oauth"
            /\ (transport' # transport /\ transport' # <<>>) => transport'[Len(transport')] = "oauth"]_vars

\* A request was answered on the OAuth handle that UseOAuth had set.
C24_Witness ==
    /\ pkg = "tsclient"
    /\ pc = "returned"
    /\ transport = <<"oauth">>
    /\ TokenURL # NoTokenURL
    /\ res.kind = "response"

\* C25: UseOAuth returns, and on a Client whose BaseURL was left unset the
\* token endpoint is resolved against the default base URL.
C25_UseOAuthReturns ==
    /\ pc # "panicked"
    /\ (pkg = "tsclient" /\ HTTP = "oauth" /\ BaseURL = NilBaseURL) =>
            TokenURL = ResolveReference(defaultBaseURL, oauthRelTokenURL)

\* C26: Client.do reports a 201 response with an empty body as success,
\* without trying to decode the body, whatever destination the caller
\* passed.
C26_EmptyBodyIsSuccess ==
    (pkg = "tsclient" /\ pc = "returned" /\ res = Response("response", StatusCreated, BodyEmpty)) =>
        /\ err = Nil
        /\ out = [Dest(out.type) EXCEPT !.set = (out.type = "bytes")]

\* C27: Set and Validate given a policy value that is neither an ACL nor a
\* string return the type error and build and send no request.
C27_OtherPolicyTypesRejected ==
    (op.name \in {"Set", "Validate"} /\ op.acl.type \notin {"ACL", "string"}) =>
        /\ pc = "returned"
        /\ err = UnexpectedACLType(op.acl)
        /\ err # Nil
        /\ req = NoRequest
        /\ res = NoResponse
        /\ transport = <<>>

C27_Witness ==
    /\ pc = "returned"
    /\ op.name = "Validate"
    /\ op.acl.type = "*ACL"
    /\ err # Nil
    /\ req = NoRequest

\* The name of the content header buildRequest sets for the last call.
ContentHeader == IF op.body.type = "nil" THEN "Accept" ELSE "Content-Type"

\* The caller's value for the header named k, "" when the caller gave none.
CallerValue(k) ==
    LET from == {n \in DOMAIN op.headers : CanonicalMIMEHeaderKey(n) = k} IN
    IF from = {} THEN "" ELSE op.headers[CHOOSE n \in from : TRUE]

\* C28: in the request buildRequest returns, a caller header named
\* User-Agent has replaced the configured user agent, the content header
\* and the Basic Authorization header carry the library's values whatever
\* the caller passed under those names, and every other caller header is
\* there as given.
C28_HeaderPrecedence ==
    (op.name = "buildRequest" /\ req # NoRequest) =>
        /\ HeaderGet(req.header, "User-Agent") =
                (IF CallerValue("User-Agent") # "" THEN CallerValue("User-Agent") ELSE UserAgent)
        /\ HeaderGet(req.header, ContentHeader) = defaultContentType
        /\ APIKey # "" => HeaderGet(req.header, "Authorization") = "Basic " \o Base64(APIKey \o ":")
        /\ \A k \in {CanonicalMIMEHeaderKey(n) : n \in DOMAIN op.headers} :
                (k # ContentHeader /\ (k = "Authorization" => APIKey = "")) =>
                    HeaderGet(req.header, k) = CallerValue(k)

C28_Witness ==
    /\ op.name = "buildRequest"
    /\ req # NoRequest
    /\ APIKey # ""
    /\ UserAgent = "custom-agent"
    /\ CallerValue("Authorization") = "caller"
    /\ HeaderGet(req.header, "Authorization") # "caller"

\* The last call failed in the transport, while reading the body, or with
\* a response outside the 2xx range.
FailedOutside2xx ==
    /\ pc = "returned"
    /\ err # Nil
    /\ \/ res.kind \in {"transportError", "readError"}
       \/ res.kind = "response" /\ ~(res.status >= StatusOK /\ res.status < StatusMultipleChoices)

\* C29: when the normalizer returns an error for a transport failure, a
\* body-read failure or a non-2xx response, the output destination is as
\* the caller passed it: nothing was decoded into it.
C29_DestinationUntouchedOnError ==
    FailedOutside2xx => out = Dest(out.type)

C29_Witness ==
    /\ FailedOutside2xx
    /\ pkg = "tsclient"
    /\ res.status = StatusNotFound
    /\ res.body = BodyKey
    /\ out = Dest("map")

\* C30: once the Client's initialization has completed, no step of any
\* goroutine's facade call writes BaseURL, Tailnet, APIKey, UserAgent, the
\* HTTP handle or a facade pointer.
C30_CallsOnlyReadConfiguration ==
    [][initDone => UNCHANGED <<BaseURL, Tailnet, APIKey, UserAgent, HTTP, facades>>]_vars

\* Every goroutine has finished its facade calls on the initialized Client.
C30_Witness ==
    /\ initDone
    /\ \A g \in Goroutines :
          /\ At(g, "idle")
          /\ Len(goroutines[g].returned) = MaxCalls
          /\ HeaderGet(goroutines[g].req.header, "User-Agent") = UserAgent
====
